---- MODULE Spec2Model ----
(***************************************************************************)
(* Model of the expense dashboard's aggregation, classification and        *)
(* forecasting layer (utils/dataProcessor, utils/forecasting) and of the   *)
(* view state that feeds it (DeviationView thresholds, MicroView rollup).  *)
(*                                                                         *)
(* JavaScript numbers are modelled as exact fractions n/d extended with    *)
(* the three IEEE specials: NaN (0/0), +Infinity (1/0), -Infinity (-1/0).  *)
(* Rounding of binary floating point and the sign of zero are not          *)
(* modelled.                                                               *)
(***************************************************************************)
EXTENDS Integers, Sequences, FiniteSets, TLC

VARIABLES
    pc,           \* position of the specification's single caller
    data,         \* ProcessedExpense[] handed to the function under study
    groupBy,      \* 'CATEGORY' | 'ACCOUNT' argument of calculateDeviations
    thresholds,   \* ThresholdConfig applied to the calculations
    deviations,   \* DeviationData[] returned by calculateDeviations
    percDev,      \* percDev argument of getStatus
    status,       \* DeviationStatus returned by getStatus
    tempThresholds, \* DeviationView: the two threshold inputs of the form
    isSaved,      \* DeviationView: the 'saved' feedback flag
    savedTimers,  \* DeviationView: pending setTimeout(() => setIsSaved(false), 2000)
    pareto,       \* ParetoItem[] returned by generatePareto
    focusedAccount,   \* MicroView: the row drilled into, or Null
    history,          \* MicroView: breadcrumb of the rows drilled through
    selectedCategory, \* MicroView: category tab
    selectedLevel,    \* MicroView: level select
    searchTerm,       \* MicroView: search box
    limit,            \* MicroView: number of rows displayed
    projectionMonths, \* generateForecast: the horizon argument
    forecast,         \* generateForecast: the ForecastResult returned
    matrix,           \* generateHeatmapData: the rows returned
    rawData,          \* processRawData: the rows read from the sheet
    processed,        \* processRawData: the ProcessedExpense[] returned
    uploads,          \* FileUpload: the files handed to handleFile, each with the state of its load
    timers,           \* FileUpload: the pending setTimeout(..., 800) callbacks, in the order they were set
    isLoading,        \* FileUpload: the 'processing' flag
    view,             \* App: the ViewMode shown
    appYears,         \* App: availableYears, selectedYear and compareYear
    host,             \* the JavaScript engine's time zone and its reading of non-ISO date strings
    monthsArg,        \* the months array handed to the period functions
    filtered,         \* filterDataByPeriod: the records returned
    label             \* getPeriodLabel: the label returned

vars == <<pc, data, groupBy, thresholds, deviations, percDev, status,
          tempThresholds, isSaved, savedTimers, pareto,
          focusedAccount, history, selectedCategory, selectedLevel, searchTerm, limit,
          projectionMonths, forecast, matrix, rawData, processed, host, uploads, timers, isLoading, view, appYears, monthsArg, filtered, label>>

(***************************************************************************)
(* JavaScript number arithmetic                                            *)
(***************************************************************************)
Sign(x) == IF x > 0 THEN 1 ELSE IF x < 0 THEN -1 ELSE 0

AbsInt(x) == IF x < 0 THEN -x ELSE x

RECURSIVE GCD(_, _)
GCD(a, b) == IF b = 0 THEN a ELSE GCD(b, a % b)

\* The number n/d in lowest terms with a positive denominator; d = 0 gives a special.
Num(n, d) ==
    IF d = 0 THEN [n |-> Sign(n), d |-> 0]
    ELSE LET g == GCD(AbsInt(n), AbsInt(d))
         IN  [n |-> Sign(d) * (n \div g), d |-> AbsInt(d) \div g]

Int2Num(i) == [n |-> i, d |-> 1]

NaN == [n |-> 0, d |-> 0]

Zero == Int2Num(0)

isNaN(x) == x.d = 0 /\ x.n = 0

IsFinite(x) == x.d # 0

\* a + b
NumAdd(a, b) ==
    IF isNaN(a) \/ isNaN(b) THEN NaN
    ELSE IF a.d = 0 /\ b.d = 0 THEN (IF a.n = b.n THEN a ELSE NaN)
    ELSE IF a.d = 0 THEN a
    ELSE IF b.d = 0 THEN b
    ELSE LET g == GCD(a.d, b.d)
         IN  Num(a.n * (b.d \div g) + b.n * (a.d \div g), (a.d \div g) * b.d)

NumNeg(a) == [n |-> -a.n, d |-> a.d]

\* a - b
NumSub(a, b) == NumAdd(a, NumNeg(b))

\* a * b
NumMul(a, b) ==
    IF a.d = 0 \/ b.d = 0 THEN Num(a.n * b.n, 0)
    ELSE LET g == GCD(AbsInt(a.n), b.d)
             h == GCD(AbsInt(b.n), a.d)
         IN  Num((a.n \div g) * (b.n \div h), (a.d \div h) * (b.d \div g))

\* a / b: x/0 is an infinity for x # 0 and NaN for x = 0
NumDiv(a, b) ==
    IF isNaN(a) \/ isNaN(b) THEN NaN
    ELSE IF b.d = 0 THEN (IF a.d = 0 THEN NaN ELSE Zero)
    ELSE IF a.d = 0 THEN [n |-> a.n * (IF b.n < 0 THEN -1 ELSE 1), d |-> 0]
    ELSE Num(a.n * b.d, a.d * b.n)

\* Math.abs
MathAbs(a) == [n |-> AbsInt(a.n), d |-> a.d]

\* a < b; every comparison with NaN is false
NumLt(a, b) ==
    IF isNaN(a) \/ isNaN(b) THEN FALSE
    ELSE IF a.d = 0 /\ b.d = 0 THEN a.n < b.n
    ELSE IF a.d = 0 THEN a.n < 0
    ELSE IF b.d = 0 THEN b.n > 0
    ELSE LET g == GCD(a.d, b.d)
         IN  a.n * (b.d \div g) < b.n * (a.d \div g)

\* a === b on numbers (NaN equals nothing)
NumEq(a, b) == ~isNaN(a) /\ ~isNaN(b) /\ a = b

\* a <= b
NumLe(a, b) == NumLt(a, b) \/ NumEq(a, b)

\* Math.max(a, b)
MathMax(a, b) ==
    IF isNaN(a) \/ isNaN(b) THEN NaN
    ELSE IF NumLt(a, b) THEN b ELSE a

Hundred == Int2Num(100)

(***************************************************************************)
(* dataProcessor: deviation classifier                                     *)
(***************************************************************************)
\* getStatus with the HEALTHY band closed on the wrong side (< instead of <=)
getStatus_strict(percDev_, config) ==
    IF NumLe(percDev_, Zero) THEN "SAVING"
    ELSE IF NumLt(percDev_, config.healthyMax) THEN "HEALTHY"
    ELSE IF NumLt(percDev_, config.criticalMin) THEN "WARNING"
    ELSE "CRITICAL"

\* getStatus: the four bands over the performance percentage
getStatus(percDev_, config) ==
    IF NumLe(percDev_, Zero) THEN "SAVING"
    ELSE IF NumLe(percDev_, config.healthyMax) THEN "HEALTHY"
    ELSE IF NumLt(percDev_, config.criticalMin) THEN "WARNING"
    ELSE "CRITICAL"

\* const safeAmount = (typeof item.amount === 'number' && !isNaN(item.amount)) ? item.amount : 0
safeAmount(item) == IF ~isNaN(item.amount) THEN item.amount ELSE Zero

\* const key = groupBy === 'CATEGORY' ? item.category : item.accountCode
bucketKey(item, mode) == IF mode = "CATEGORY" THEN item.category ELSE item.accountCode

\* a map that never finds a key: every record opens a bucket of its own
mapHas_never(map, key) == FALSE

\* map.has(key)
mapHas(map, key) == \E i \in 1..Len(map) : map[i].id = key

\* position of map.get(key) in insertion order
mapIndex(map, key) == CHOOSE i \in 1..Len(map) : map[i].id = key

\* the entry map.set(key, {...}) creates for the first record seen with a key
newEntry(item, mode) ==
    [id            |-> bucketKey(item, mode),
     description   |-> IF mode = "CATEGORY" THEN item.categoryName ELSE item.description,
     category      |-> item.category,
     accountCode   |-> IF mode = "ACCOUNT" THEN item.accountCode ELSE "undefined",
     level         |-> item.level,
     budget        |-> Zero,
     real          |-> Zero,
     absDeviation  |-> Zero,
     percDeviation |-> Zero,
     status        |-> "HEALTHY"]

\* entry.real += safeAmount / entry.budget += safeAmount
addAmount(entry, item) ==
    IF item.dataType = "REAL"
    THEN [entry EXCEPT !.real = NumAdd(@, safeAmount(item))]
    ELSE [entry EXCEPT !.budget = NumAdd(@, safeAmount(item))]

\* accumulate without the revenue guard of its first line
accumulate_keepsRevenue(map, item, mode) ==
    LET key == bucketKey(item, mode)
        m1  == IF mapHas(map, key) THEN map ELSE Append(map, newEntry(item, mode))
        i   == CHOOSE j \in 1..Len(m1) : m1[j].id = key
    IN  [m1 EXCEPT ![i] = IF item.dataType = "REAL"
                          THEN [@ EXCEPT !.real = NumAdd(@, safeAmount(item))]
                          ELSE [@ EXCEPT !.budget = NumAdd(@, safeAmount(item))]]

\* one iteration of data.forEach(item => ...)
accumulate(map, item, mode) ==
    IF item.category = "ROL" THEN map
    ELSE LET key == bucketKey(item, mode)
             m1  == IF mapHas(map, key) THEN map ELSE Append(map, newEntry(item, mode))
             i   == mapIndex(m1, key)
         IN  [m1 EXCEPT ![i] = addAmount(@, item)]

RECURSIVE forEachItem(_, _, _)
forEachItem(map, items, mode) ==
    IF items = <<>> THEN map
    ELSE forEachItem(accumulate(map, Head(items), mode), Tail(items), mode)

\* the difference of the signed totals, without Math.abs
performanceDiff_signed(item) == NumSub(item.real, item.budget)

\* const performanceDiff = expenseReal - expenseBudget, on magnitudes
performanceDiff(item) == NumSub(MathAbs(item.real), MathAbs(item.budget))

\* the percentage without the zero-budget branch
percDeviationOf_unguarded(item) ==
    NumMul(NumDiv(NumSub(MathAbs(item.real), MathAbs(item.budget)), MathAbs(item.budget)), Hundred)

\* expenseBudget !== 0 ? (performanceDiff / expenseBudget) * 100 : (expenseReal > 0 ? 100 : 0)
percDeviationOf(item) ==
    IF MathAbs(item.budget) # Zero
    THEN NumMul(NumDiv(performanceDiff(item), MathAbs(item.budget)), Hundred)
    ELSE IF NumLt(Zero, MathAbs(item.real)) THEN Hundred ELSE Zero

\* the deviation without the sign inversion
displayDeviation_notInverted(item) == NumSub(MathAbs(item.real), MathAbs(item.budget))

\* const displayDeviation = performanceDiff * -1
displayDeviation(item) == NumMul(performanceDiff(item), Int2Num(-1))

\* the object the final .map(item => ...) returns for one bucket
finishEntry(item, config) ==
    [item EXCEPT !.absDeviation  = displayDeviation(item),
                 !.percDeviation = percDeviationOf(item),
                 !.status        = getStatus(percDeviationOf(item), config)]

calculateDeviations(items, mode, config) ==
    LET map == forEachItem(<<>>, items, mode)
    IN  [i \in 1..Len(map) |-> finishEntry(map[i], config)]

\* determineCategoryName
determineCategoryName(cat) ==
    CASE cat = "DC"  -> "Despesas Comerciais"
      [] cat = "DL"  -> "Despesas Logísticas"
      [] cat = "DA"  -> "Despesas Administrativas"
      [] cat = "DF"  -> "Despesas Financeiras"
      [] cat = "GGF" -> "Gastos Gerais de Fabricação"
      [] cat = "DP"  -> "Depreciação"
      [] cat = "ROL" -> "Receita Líquida Operacional"
      [] OTHER       -> "Outras"

(***************************************************************************)
(* Specification SpecDeviation: calculateDeviations applied to every       *)
(* record list of at most MaxRecords records drawn from DevRecords.        *)
(***************************************************************************)
MaxRecords == 2

\* (category, accountCode) of the records: two expense categories sharing an
\* account code, a second account code, and revenue under an expense account code
DevKeys == { <<"DC", "4.1">>, <<"DL", "4.1">>, <<"DL", "4.2">>, <<"ROL", "4.1">> }

DevAmounts == { Int2Num(-100), Int2Num(80), Int2Num(100) }

\* (description, level) of the records
DevMeta == { <<"Fretes", 5>>, <<"Logistica", 2>> }

DataTypes == { "REAL", "ORCADO" }

DevRecords ==
    { [dataType     |-> t,
       category     |-> k[1],
       categoryName |-> determineCategoryName(k[1]),
       accountCode  |-> k[2],
       description  |-> m[1],
       level        |-> m[2],
       amount       |-> a] : t \in DataTypes, k \in DevKeys, m \in DevMeta, a \in DevAmounts }

DEFAULT_THRESHOLDS == [healthyMax |-> Int2Num(10), criticalMin |-> Int2Num(20)]

DevConfigs == { DEFAULT_THRESHOLDS, [healthyMax |-> Int2Num(0), criticalMin |-> Int2Num(50)] }

GroupModes == { "CATEGORY", "ACCOUNT" }

SeqsUpTo(S, n) == UNION { [1..k -> S] : k \in 0..n }

\* the variables a specification does not use keep these values
NoDeviation == data = <<>> /\ groupBy = "CATEGORY" /\ deviations = <<>>

NoStatus == percDev = Zero /\ status = "none"

NoView == tempThresholds = DEFAULT_THRESHOLDS /\ isSaved = FALSE /\ savedTimers = 0

NoPareto == pareto = <<>>

NoMicro ==
    /\ focusedAccount = [null |-> TRUE]
    /\ history = <<>>
    /\ selectedCategory = "ALL"
    /\ selectedLevel = "ALL"
    /\ searchTerm = ""
    /\ limit = 0

NoForecast == projectionMonths = 0 /\ forecast = <<>>

NoHeatmap == matrix = <<>>

\* the application before any file is chosen: the upload screen, nothing pending
NoUpload ==
    /\ uploads = <<>>
    /\ timers = <<>>
    /\ isLoading = FALSE
    /\ view = "UPLOAD"
    /\ appYears = [availableYears |-> <<>>, selectedYear |-> 2024, compareYear |-> 2023]
           \* new Date().getFullYear() and the year before it

NoRaw ==
    /\ rawData = <<>>
    /\ processed = <<>>
    /\ host = [timezone |-> 0, fallbackDate |-> [valid |-> FALSE]]
    /\ NoUpload

NoPeriod == monthsArg = <<>> /\ filtered = <<>> /\ label = ""

devVars == <<data, groupBy, deviations>>

statusVars == <<percDev, status>>

viewVars == <<tempThresholds, isSaved, savedTimers>>

microVars == <<focusedAccount, history, selectedCategory, selectedLevel, searchTerm, limit>>

forecastVars == <<projectionMonths, forecast>>

heatVars == <<matrix>>

uploadVars == <<uploads, timers, isLoading, view, appYears>>

rawVars == <<rawData, processed, host, uploadVars>>

periodVars == <<monthsArg, filtered, label>>

InitDeviation ==
    /\ pc = "idle"
    /\ data \in SeqsUpTo(DevRecords, MaxRecords)
    /\ groupBy = "CATEGORY"
    /\ thresholds = DEFAULT_THRESHOLDS
    /\ deviations = <<>>
    /\ NoStatus
    /\ NoView
    /\ NoPareto
    /\ NoMicro
    /\ NoForecast
    /\ NoHeatmap
    /\ NoRaw
    /\ NoPeriod

\* a caller evaluates calculateDeviations(data, groupBy, thresholds)
CallCalculateDeviations ==
    /\ pc = "idle"
    /\ \E mode \in GroupModes, config \in DevConfigs :
          /\ groupBy' = mode
          /\ thresholds' = config
          /\ deviations' = calculateDeviations(data, mode, config)
    /\ pc' = "done"
    /\ UNCHANGED <<data, statusVars, viewVars, pareto, microVars, forecastVars, heatVars, rawVars, periodVars>>

NextDeviation == CallCalculateDeviations

SpecDeviation == InitDeviation /\ [][NextDeviation]_vars

NegatedAmounts(items) == [i \in 1..Len(items) |-> [items[i] EXCEPT !.amount = NumNeg(@)]]

\* C4: negating every amount leaves every bucket's status, percDeviation and
\* absDeviation unchanged, in either grouping mode and for any thresholds.
C4_MagnitudeInvariance ==
    pc = "done" =>
        LET neg == calculateDeviations(NegatedAmounts(data), groupBy, thresholds)
        IN  /\ Len(neg) = Len(deviations)
            /\ \A i \in 1..Len(deviations) :
                  /\ neg[i].id = deviations[i].id
                  /\ neg[i].status = deviations[i].status
                  /\ neg[i].percDeviation = deviations[i].percDeviation
                  /\ neg[i].absDeviation = deviations[i].absDeviation

C4_Witness ==
    /\ pc = "done"
    /\ \E i \in 1..Len(deviations) :
          /\ NumLt(deviations[i].real, Zero)
          /\ NumLt(Zero, deviations[i].budget)
          /\ deviations[i].status = "CRITICAL"

WithoutRevenue(items) ==
    LET notRol(r) == r.category # "ROL"
    IN  SelectSeq(items, notRol)

\* C9: no result has category ROL, and the results are those of the same list
\* with its ROL records removed (no ROL record contributes to any total).
C9_RevenueExcluded ==
    pc = "done" =>
        /\ \A i \in 1..Len(deviations) : deviations[i].category # "ROL"
        /\ deviations = calculateDeviations(WithoutRevenue(data), groupBy, thresholds)

C9_Witness ==
    /\ pc = "done"
    /\ groupBy = "ACCOUNT"
    /\ Len(deviations) = 1
    /\ \E i, j \in 1..Len(data) :
          /\ data[i].category = "ROL"
          /\ data[j].category # "ROL"
          /\ data[i].accountCode = data[j].accountCode
          /\ data[i].dataType = data[j].dataType

\* positions of the non-revenue records with a key
PositionsOf(items, mode, key) ==
    { i \in 1..Len(items) : items[i].category # "ROL" /\ bucketKey(items[i], mode) = key }

\* the distinct keys among the non-revenue records
KeysOf(items, mode) ==
    { bucketKey(items[i], mode) : i \in { j \in 1..Len(items) : items[j].category # "ROL" } }

RECURSIVE SumAt(_, _)
SumAt(items, S) ==
    IF S = {} THEN Zero
    ELSE LET i == CHOOSE j \in S : TRUE
         IN  NumAdd(items[i].amount, SumAt(items, S \ {i}))

\* one result per key, with the REAL and ORCADO sums of the key
OneBucketPerKey ==
    /\ { deviations[i].id : i \in 1..Len(deviations) } = KeysOf(data, groupBy)
    /\ Len(deviations) = Cardinality(KeysOf(data, groupBy))
    /\ \A i \in 1..Len(deviations) :
          LET P == PositionsOf(data, groupBy, deviations[i].id)
          IN  /\ deviations[i].real = SumAt(data, { j \in P : data[j].dataType = "REAL" })
              /\ deviations[i].budget = SumAt(data, { j \in P : data[j].dataType = "ORCADO" })

\* the first record seen with the key of result i
FirstSeen(i) ==
    LET P == PositionsOf(data, groupBy, deviations[i].id)
    IN  data[CHOOSE j \in P : \A k \in P : j <= k]

\* C10 as stated: description, category and level are those of the first record
\* seen with the key, in both modes.
C10_AsStated ==
    pc = "done" =>
        /\ OneBucketPerKey
        /\ \A i \in 1..Len(deviations) :
              /\ deviations[i].description = FirstSeen(i).description
              /\ deviations[i].category = FirstSeen(i).category
              /\ deviations[i].level = FirstSeen(i).level

\* C10 (amended): one result per distinct key among the non-revenue records, with
\* the REAL sum and the ORCADO sum of that key; category and level are those of
\* the first record seen with the key, and description is that record's
\* description in ACCOUNT mode and its categoryName in CATEGORY mode.
C10_OneBucketPerKey ==
    pc = "done" =>
        /\ OneBucketPerKey
        /\ \A i \in 1..Len(deviations) :
              /\ deviations[i].description =
                    (IF groupBy = "CATEGORY" THEN FirstSeen(i).categoryName
                     ELSE FirstSeen(i).description)
              /\ deviations[i].category = FirstSeen(i).category
              /\ deviations[i].level = FirstSeen(i).level

C10_Witness ==
    /\ pc = "done"
    /\ groupBy = "ACCOUNT"
    /\ Len(data) = 2
    /\ Len(deviations) = 1
    /\ data[1].description # data[2].description
    /\ data[1].category # data[2].category
    /\ data[1].level # data[2].level
    /\ data[1].dataType = "REAL" /\ data[2].dataType = "REAL"
    /\ deviations[1].real = NumAdd(data[1].amount, data[2].amount)

(***************************************************************************)
(* Specification SpecStatus: getStatus applied to every percentage of      *)
(* PercInputs under every ordered threshold pair of ThresholdLevels.       *)
(***************************************************************************)
ThresholdLevels == { Int2Num(0), Int2Num(10), Int2Num(20), Int2Num(30) }

StatusConfigs ==
    { config \in [healthyMax : ThresholdLevels, criticalMin : ThresholdLevels] :
          NumLt(config.healthyMax, config.criticalMin) }

PercInputs ==
    { Int2Num(-20), Zero, Num(1, 10000), Int2Num(5), Int2Num(10), Num(100001, 10000),
      Int2Num(15), Num(19999, 1000), Int2Num(20), Int2Num(25), Int2Num(30), Hundred }

InitStatus ==
    /\ pc = "idle"
    /\ percDev \in PercInputs
    /\ thresholds \in StatusConfigs
    /\ status = "none"
    /\ NoDeviation
    /\ NoView
    /\ NoPareto
    /\ NoMicro
    /\ NoForecast
    /\ NoHeatmap
    /\ NoRaw
    /\ NoPeriod

\* a caller evaluates getStatus(percDev, thresholds)
CallGetStatus ==
    /\ pc = "idle"
    /\ status' = getStatus(percDev, thresholds)
    /\ pc' = "done"
    /\ UNCHANGED <<percDev, thresholds, devVars, viewVars, pareto, microVars, forecastVars, heatVars, rawVars, periodVars>>

NextStatus == CallGetStatus

SpecStatus == InitStatus /\ [][NextStatus]_vars

MaxTimers == 2

\* Number(e.target.value) for the values typed into the two inputs
ThresholdInputs == { Int2Num(-5), Int2Num(0), Int2Num(10), Int2Num(20), Int2Num(30) }

InitThresholds ==
    /\ pc = "view"
    /\ thresholds = DEFAULT_THRESHOLDS
    /\ tempThresholds = DEFAULT_THRESHOLDS
    /\ isSaved = FALSE
    /\ savedTimers = 0
    /\ NoDeviation
    /\ NoStatus
    /\ NoPareto
    /\ NoMicro
    /\ NoForecast
    /\ NoHeatmap
    /\ NoRaw
    /\ NoPeriod

\* onChange of the 'Tolerancia' input
EditHealthyMax ==
    /\ \E v \in ThresholdInputs : tempThresholds' = [tempThresholds EXCEPT !.healthyMax = v]
    /\ UNCHANGED <<pc, thresholds, isSaved, savedTimers, devVars, statusVars, pareto, microVars, forecastVars, heatVars, rawVars, periodVars>>

\* onChange of the 'Critico' input
EditCriticalMin ==
    /\ \E v \in ThresholdInputs : tempThresholds' = [tempThresholds EXCEPT !.criticalMin = v]
    /\ UNCHANGED <<pc, thresholds, isSaved, savedTimers, devVars, statusVars, pareto, microVars, forecastVars, heatVars, rawVars, periodVars>>

\* 'Salvar Criterios'
handleSaveThresholds ==
    /\ savedTimers < MaxTimers
    /\ thresholds' = tempThresholds
    /\ isSaved' = TRUE
    /\ savedTimers' = savedTimers + 1
    /\ UNCHANGED <<pc, tempThresholds, devVars, statusVars, pareto, microVars, forecastVars, heatVars, rawVars, periodVars>>

\* 'Restaurar Padrao'
handleRestoreDefaults ==
    /\ tempThresholds' = DEFAULT_THRESHOLDS
    /\ thresholds' = DEFAULT_THRESHOLDS
    /\ UNCHANGED <<pc, isSaved, savedTimers, devVars, statusVars, pareto, microVars, forecastVars, heatVars, rawVars, periodVars>>

\* a pending setTimeout callback runs: setIsSaved(false)
SavedTimeout ==
    /\ savedTimers > 0
    /\ isSaved' = FALSE
    /\ savedTimers' = savedTimers - 1
    /\ UNCHANGED <<pc, thresholds, tempThresholds, devVars, statusVars, pareto, microVars, forecastVars, heatVars, rawVars, periodVars>>

NextThresholds ==
    \/ EditHealthyMax
    \/ EditCriticalMin
    \/ handleSaveThresholds
    \/ handleRestoreDefaults
    \/ SavedTimeout

SpecThresholds == InitThresholds /\ [][NextThresholds]_vars

\* C3: the applied thresholds always satisfy 0 <= healthyMax < criticalMin.
C3_ThresholdsOrdered ==
    /\ NumLe(Zero, thresholds.healthyMax)
    /\ NumLt(thresholds.healthyMax, thresholds.criticalMin)

(***************************************************************************)
(* dataProcessor: Pareto generator                                         *)
(***************************************************************************)
\* .filter(d => d.absDeviation < 0)
overruns(items) ==
    LET isOverrun(d) == NumLt(d.absDeviation, Zero)
    IN  SelectSeq(items, isOverrun)

\* x placed into an ascending list, after the elements that do not exceed it
insertAscending(sorted, x) ==
    LET later == { i \in 1..Len(sorted) : NumLt(x.absDeviation, sorted[i].absDeviation) }
        at    == IF later = {} THEN Len(sorted) + 1
                 ELSE CHOOSE i \in later : \A j \in later : i <= j
    IN  SubSeq(sorted, 1, at - 1) \o <<x>> \o SubSeq(sorted, at, Len(sorted))

\* a sort that leaves the items in their input order
sortAscending_unsorted(items) == items

\* .sort((a, b) => a.absDeviation - b.absDeviation), a stable sort
RECURSIVE sortAscending(_)
sortAscending(items) ==
    IF items = <<>> THEN <<>>
    ELSE insertAscending(sortAscending(SubSeq(items, 1, Len(items) - 1)), items[Len(items)])

\* sorted.reduce((acc, curr) => acc + Math.abs(curr.absDeviation), 0) over the first k items
RECURSIVE accumulatedAt(_, _)
accumulatedAt(sorted, k) ==
    IF k = 0 THEN Zero
    ELSE NumAdd(accumulatedAt(sorted, k - 1), MathAbs(sorted[k].absDeviation))

\* .slice(0, 10)
PARETO_LIMIT == 10

sliceTop(items, n) == SubSeq(items, 1, IF Len(items) < n THEN Len(items) ELSE n)

\* generatePareto with the running total forgotten: every item reports its own share
generatePareto_notAccumulated(items) ==
    LET sorted         == sortAscending(overruns(items))
        totalDeviation == accumulatedAt(sorted, Len(sorted))
        mapped ==
            [k \in 1..Len(sorted) |->
                [name    |-> sorted[k].description,
                 value   |-> MathAbs(sorted[k].absDeviation),
                 percent |-> NumMul(NumDiv(MathAbs(sorted[k].absDeviation), totalDeviation), Hundred),
                 cumulativePercent |->
                     NumMul(NumDiv(MathAbs(sorted[k].absDeviation), totalDeviation), Hundred)]]
    IN  sliceTop(mapped, PARETO_LIMIT)

generatePareto(items) ==
    LET sorted         == sortAscending(overruns(items))
        totalDeviation == accumulatedAt(sorted, Len(sorted))
        mapped ==
            [k \in 1..Len(sorted) |->
                [name    |-> sorted[k].description,
                 value   |-> MathAbs(sorted[k].absDeviation),
                 percent |-> NumMul(NumDiv(MathAbs(sorted[k].absDeviation), totalDeviation), Hundred),
                 cumulativePercent |->
                     IF NumLt(Zero, totalDeviation)
                     THEN NumMul(NumDiv(accumulatedAt(sorted, k), totalDeviation), Hundred)
                     ELSE Zero]]
    IN  sliceTop(mapped, PARETO_LIMIT)

(***************************************************************************)
(* Specification SpecPareto: generatePareto applied to every list made of  *)
(* at most MaxMixed deviation results drawn from ParetoInputs followed by  *)
(* at most MaxRun further overruns of the same size.                       *)
(***************************************************************************)
MaxMixed == 6

MaxRun == 8

\* two sizes of overrun and a result that is no overrun
ParetoInputs ==
    { [description |-> "Conta", absDeviation |-> a] : a \in { Int2Num(-2), Int2Num(-1), Zero } }

RunOfOverruns(k) == [i \in 1..k |-> [description |-> "Conta", absDeviation |-> Int2Num(-1)]]

ParetoLists ==
    { mixed \o RunOfOverruns(k) : mixed \in SeqsUpTo(ParetoInputs, MaxMixed), k \in 0..MaxRun }

InitPareto ==
    /\ pc = "idle"
    /\ deviations \in ParetoLists
    /\ pareto = <<>>
    /\ data = <<>>
    /\ groupBy = "CATEGORY"
    /\ thresholds = DEFAULT_THRESHOLDS
    /\ NoStatus
    /\ NoView
    /\ NoMicro
    /\ NoForecast
    /\ NoHeatmap
    /\ NoRaw
    /\ NoPeriod

\* a caller evaluates generatePareto(deviations)
CallGeneratePareto ==
    /\ pc = "idle"
    /\ pareto' = generatePareto(deviations)
    /\ pc' = "done"
    /\ UNCHANGED <<data, groupBy, thresholds, deviations, statusVars, viewVars, microVars, forecastVars, heatVars, rawVars, periodVars>>

NextPareto == CallGeneratePareto

SpecPareto == InitPareto /\ [][NextPareto]_vars

\* number of overrun items of the input
OverrunCount == Len(overruns(deviations))

\* C6 as stated: for a non-empty set of overruns of any size the last returned
\* item has cumulativePercent 100.
C6_AsStated ==
    pc = "done" /\ OverrunCount > 0 =>
        /\ pareto # <<>>
        /\ pareto[Len(pareto)].cumulativePercent = Hundred

\* C6 (amended): for a non-empty set of at most 10 overruns the last returned
\* item has cumulativePercent 100.
C6_LastIsHundred ==
    pc = "done" /\ OverrunCount > 0 /\ OverrunCount <= PARETO_LIMIT =>
        /\ pareto # <<>>
        /\ pareto[Len(pareto)].cumulativePercent = Hundred

C6_Witness ==
    /\ pc = "done"
    /\ OverrunCount = PARETO_LIMIT
    /\ Len(deviations) > PARETO_LIMIT
    /\ Len(pareto) = PARETO_LIMIT
    /\ pareto[1].value # pareto[Len(pareto)].value
    /\ pareto[Len(pareto)].cumulativePercent = Hundred

\* the overruns of the input whose magnitude exceeds v
LargerOverruns(v) ==
    { i \in 1..Len(deviations) :
        NumLt(deviations[i].absDeviation, Zero) /\ NumLt(v, MathAbs(deviations[i].absDeviation)) }

\* C11: generatePareto returns only overruns (absDeviation < 0), worst first
\* (value non-increasing, cumulativePercent non-decreasing), the 10 largest at
\* most, and the empty list exactly when the input has no overrun
C11_TopOverruns ==
    pc = "done" =>
        /\ Len(pareto) = (IF OverrunCount < PARETO_LIMIT THEN OverrunCount ELSE PARETO_LIMIT)
        /\ (pareto = <<>>) <=> (OverrunCount = 0)
        /\ \A k \in 1..Len(pareto) :
              /\ \E i \in 1..Len(deviations) :
                    /\ NumLt(deviations[i].absDeviation, Zero)
                    /\ pareto[k].value = MathAbs(deviations[i].absDeviation)
                    /\ pareto[k].name = deviations[i].description
              /\ Cardinality(LargerOverruns(pareto[k].value)) < k
        /\ \A k \in 1..(Len(pareto) - 1) :
              /\ NumLe(pareto[k + 1].value, pareto[k].value)
              /\ NumLe(pareto[k].cumulativePercent, pareto[k + 1].cumulativePercent)

C11_Witness ==
    /\ pc = "done"
    /\ OverrunCount > PARETO_LIMIT
    /\ OverrunCount < Len(deviations)
    /\ NumLt(deviations[1].absDeviation, deviations[2].absDeviation)
    /\ NumLt(deviations[3].absDeviation, deviations[2].absDeviation)
    /\ Len(pareto) = PARETO_LIMIT
    /\ pareto[1].value # pareto[Len(pareto)].value

(***************************************************************************)
(* JavaScript string operations                                            *)
(***************************************************************************)
\* str.startsWith(prefix)
startsWith(str, prefix) ==
    Len(str) >= Len(prefix) /\ SubSeq(str, 1, Len(prefix)) = prefix

\* str.includes(sub)
includes(str, sub) ==
    \E i \in 1..(Len(str) - Len(sub) + 1) : SubSeq(str, i, i + Len(sub) - 1) = sub

UpperLetters == "ABCDEFGHIJKLMNOPQRSTUVWXYZÇ"

LowerLetters == "abcdefghijklmnopqrstuvwxyzç"

\* the character c with the letters of alphabet `from' replaced by those of `to'
mapChar(c, from, to) ==
    IF \E i \in 1..Len(from) : SubSeq(from, i, i) = c
    THEN LET i == CHOOSE j \in 1..Len(from) : SubSeq(from, j, j) = c
         IN  SubSeq(to, i, i)
    ELSE c

RECURSIVE mapString(_, _, _)
mapString(str, from, to) ==
    IF Len(str) = 0 THEN ""
    ELSE mapChar(SubSeq(str, 1, 1), from, to) \o mapString(SubSeq(str, 2, Len(str)), from, to)

toLowerCase(str) == mapString(str, UpperLetters, LowerLetters)

toUpperCase(str) == mapString(str, LowerLetters, UpperLetters)

(***************************************************************************)
(* dataProcessor: record normalizer and period filter                      *)
(***************************************************************************)
\* determineCategory without the toUpperCase() of its argument
determineCategory_caseSensitive(idCtactb) ==
    IF idCtactb = "" THEN "OUTROS"
    ELSE IF includes(idCtactb, "DC") THEN "DC"
    ELSE IF includes(idCtactb, "DL") THEN "DL"
    ELSE IF includes(idCtactb, "DA") THEN "DA"
    ELSE IF includes(idCtactb, "DF") THEN "DF"
    ELSE IF includes(idCtactb, "GGF") THEN "GGF"
    ELSE IF includes(idCtactb, "DP") THEN "DP"
    ELSE IF includes(idCtactb, "ROL") \/ includes(idCtactb, "RECEITA") THEN "ROL"
    ELSE "OUTROS"

determineCategory(idCtactb) ==
    IF idCtactb = "" THEN "OUTROS"
    ELSE LET upperId == toUpperCase(idCtactb)
         IN  IF includes(upperId, "DC") THEN "DC"
             ELSE IF includes(upperId, "DL") THEN "DL"
             ELSE IF includes(upperId, "DA") THEN "DA"
             ELSE IF includes(upperId, "DF") THEN "DF"
             ELSE IF includes(upperId, "GGF") THEN "GGF"
             ELSE IF includes(upperId, "DP") THEN "DP"
             ELSE IF includes(upperId, "ROL") \/ includes(upperId, "RECEITA") THEN "ROL"
             ELSE "OUTROS"

\* months.includes(m)
monthsInclude(months, m) == \E i \in 1..Len(months) : months[i] = m

\* filterDataByPeriod without its first line: an empty selection keeps nothing
filterDataByPeriod_emptyKeepsNone(items, months) ==
    LET inPeriod(d) == monthsInclude(months, d.month)
    IN  SelectSeq(items, inPeriod)

filterDataByPeriod(items, months) ==
    IF Len(months) = 0 THEN items
    ELSE LET inPeriod(d) == monthsInclude(months, d.month)
         IN  SelectSeq(items, inPeriod)

\* the fallback year of parseYear
DEFAULT_YEAR == 2024

\* items.reduce((sum, item) => sum + item.amount, 0)
RECURSIVE sumAmounts(_)
sumAmounts(items) ==
    IF items = <<>> THEN Zero
    ELSE NumAdd(sumAmounts(SubSeq(items, 1, Len(items) - 1)), items[Len(items)].amount)

(***************************************************************************)
(* MicroView: table rows (filteredData) and drill-down navigation          *)
(***************************************************************************)
Null == [null |-> TRUE]

\* useState(50) and the page size of 'load more'
PAGE_SIZE == 50

\* the props of the view: the selected year, the comparison year, no period filter
selectedYear == DEFAULT_YEAR

compareYear == DEFAULT_YEAR - 1

selectedMonths == <<>>

periodData == filterDataByPeriod(data, selectedMonths)

\* Math.abs(x) < 0.01
isNearZero(x) == NumLt(MathAbs(x), Num(1, 100))

\* x placed into a list descending in `field', after the elements that are not below it
insertDescending(sorted, x, field) ==
    LET later == { i \in 1..Len(sorted) : NumLt(sorted[i][field], x[field]) }
        at    == IF later = {} THEN Len(sorted) + 1
                 ELSE CHOOSE i \in later : \A j \in later : i <= j
    IN  SubSeq(sorted, 1, at - 1) \o <<x>> \o SubSeq(sorted, at, Len(sorted))

\* .sort((a, b) => b[field] - a[field]), a stable sort
RECURSIVE sortDescendingBy(_, _)
sortDescendingBy(rows, field) ==
    IF rows = <<>> THEN <<>>
    ELSE insertDescending(sortDescendingBy(SubSeq(rows, 1, Len(rows) - 1), field),
                          rows[Len(rows)], field)

\* .sort((a, b) => b.amount - a.amount)
sortByAmountDesc(rows) == sortDescendingBy(rows, "amount")

\* Array.from(new Set(values)): the distinct values in order of first occurrence
RECURSIVE distinctInOrder(_)
distinctInOrder(values) ==
    IF values = <<>> THEN <<>>
    ELSE LET front == distinctInOrder(SubSeq(values, 1, Len(values) - 1))
             x     == values[Len(values)]
         IN  IF \E i \in 1..Len(front) : front[i] = x THEN front ELSE Append(front, x)

\* 1. Base Filter and Category Filter
candidates ==
    LET keep(d) == /\ d.year = selectedYear
                   /\ d.dataType = "REAL"
                   /\ d.category # "ROL"
                   /\ (selectedCategory = "ALL" \/ d.category = selectedCategory)
    IN  SelectSeq(periodData, keep)

\* MODE 1: one consolidated row per structural group
rootRow(id) ==
    LET inGroup(d) == d.idCtactb = id
        groupItems == SelectSeq(candidates, inGroup)
        isL2(d)    == d.level = 2
        isL5(d)    == d.level = 5
        l2Items    == SelectSeq(groupItems, isL2)
        l2Total    == sumAmounts(l2Items)
        total      == IF isNearZero(l2Total) THEN sumAmounts(SelectSeq(groupItems, isL5))
                      ELSE l2Total
        metaItem   == IF Len(l2Items) > 0 THEN l2Items[1] ELSE groupItems[1]
    IN  [metaItem EXCEPT !.amount = total,
                         !.accountCode = metaItem.categoryName,
                         !.description = "Visao Consolidada (Todas as Contas)",
                         !.isSyntheticGroup = TRUE]

rootView ==
    LET notST(id)  == ~includes(id, "ST")
        uniqueIds  == SelectSeq(distinctInOrder([i \in 1..Len(candidates) |-> candidates[i].idCtactb]), notST)
        result     == [i \in 1..Len(uniqueIds) |-> rootRow(uniqueIds[i])]
        lower      == toLowerCase(searchTerm)
        matches(d) == \/ includes(toLowerCase(d.idCtactb), lower)
                      \/ includes(toLowerCase(d.categoryName), lower)
    IN  IF searchTerm # "" THEN SelectSeq(sortByAmountDesc(result), matches)
        ELSE sortByAmountDesc(result)

\* candidates.filter(d => d.idCtactb === focusedAccount.idCtactb)
groupItemsOf(id) ==
    LET inGroup(d) == d.idCtactb = id
    IN  SelectSeq(candidates, inGroup)

\* the level-2 rows of the group that carry the account code `key'
l2RowsOf(groupItems, key) ==
    LET isL2Key(d) == d.level = 2 /\ d.accountCode = key
    IN  SelectSeq(groupItems, isL2Key)

\* the level-5 records the fallback sums for the level-2 account `key'
childrenOfL2(groupItems, key) ==
    LET isChild(d) == d.level = 5 /\ startsWith(d.accountCode, key)
    IN  SelectSeq(groupItems, isChild)

\* MODE 2: the level-2 accounts of the focused group
groupView ==
    LET groupItems == groupItemsOf(focusedAccount.idCtactb)
        isL2(d)    == d.level = 2
        l2Rows     == SelectSeq(groupItems, isL2)
        keys       == distinctInOrder([i \in 1..Len(l2Rows) |-> l2Rows[i].accountCode])
        row(key)   ==
            LET rowsOfKey   == l2RowsOf(groupItems, key)
                l2Amount    == sumAmounts(rowsOfKey)
                finalAmount == IF isNearZero(l2Amount)
                               THEN sumAmounts(childrenOfL2(groupItems, key))
                               ELSE l2Amount
            IN  [rowsOfKey[1] EXCEPT !.amount = finalAmount]
        result     == [i \in 1..Len(keys) |-> row(keys[i])]
        matches(d) == \/ includes(toLowerCase(d.description), toLowerCase(searchTerm))
                      \/ includes(d.accountCode, searchTerm)
    IN  IF searchTerm # "" THEN sortByAmountDesc(SelectSeq(result, matches))
        ELSE sortByAmountDesc(result)

\* Number(e.target.value) of the level select
levelNumber(option) ==
    CASE option = "3" -> 3
      [] option = "4" -> 4
      [] option = "5" -> 5

\* Math.min(...levels)
minLevel(rows) ==
    CHOOSE l \in { rows[i].level : i \in 1..Len(rows) } :
        \A i \in 1..Len(rows) : l <= rows[i].level

\* MODE 3: the children of the focused account
hierarchyView ==
    LET below(d)    == /\ d.category = focusedAccount.category
                       /\ startsWith(d.accountCode, focusedAccount.accountCode)
                       /\ d.level > focusedAccount.level
        under       == SelectSeq(candidates, below)
        atNext(d)   == d.level = minLevel(under)
        atLevel(d)  == d.level = levelNumber(selectedLevel)
        levelled    == IF selectedLevel = "ALL"
                       THEN (IF Len(under) > 0 THEN SelectSeq(under, atNext) ELSE under)
                       ELSE SelectSeq(under, atLevel)
        lower       == toLowerCase(searchTerm)
        matches(d)  == \/ includes(toLowerCase(d.description), lower)
                       \/ includes(d.accountCode, lower)
        searched    == IF searchTerm # "" THEN SelectSeq(levelled, matches) ELSE levelled
        keyOf(d)    == <<d.level, d.accountCode>>
        keys        == distinctInOrder([i \in 1..Len(searched) |-> keyOf(searched[i])])
        row(key)    ==
            LET hasKey(d)   == keyOf(d) = key
                rowsOfKey   == SelectSeq(searched, hasKey)
                meta        == rowsOfKey[1]
                amount      == sumAmounts(rowsOfKey)
                isLeaf(d)   == /\ d.year = selectedYear
                               /\ d.dataType = "REAL"
                               /\ d.level = 5
                               /\ d.category = meta.category
                               /\ (d.accountCode = meta.accountCode
                                   \/ startsWith(d.accountCode, meta.accountCode \o "."))
                childrenSum == sumAmounts(SelectSeq(periodData, isLeaf))
                finalAmount == IF meta.level < 5
                                  /\ (NumLt(Num(1, 100), MathAbs(childrenSum)) \/ isNearZero(amount))
                               THEN childrenSum ELSE amount
            IN  [meta EXCEPT !.amount = finalAmount]
    IN  sortByAmountDesc([i \in 1..Len(keys) |-> row(keys[i])])

\* const filteredData = useMemo(...)
filteredData ==
    IF focusedAccount = Null THEN rootView
    ELSE IF focusedAccount.isSyntheticGroup THEN groupView
    ELSE hierarchyView

\* filteredData.slice(0, limit)
displayedData == SubSeq(filteredData, 1, IF Len(filteredData) < limit THEN Len(filteredData) ELSE limit)

(***************************************************************************)
(* SpecMicro: MicroView over a small ledger, every control of the view     *)
(* except 'load more', which is rendered only when more than PAGE_SIZE     *)
(* rows exist.                                                             *)
(***************************************************************************)
MaxMicroRecords == 3

\* ProcessedExpense as processRawData builds it
expense(idCtactb, accountCode, description, level, amount) ==
    [dataType         |-> "REAL",
     category         |-> determineCategory(idCtactb),
     categoryName     |-> determineCategoryName(determineCategory(idCtactb)),
     idCtactb         |-> idCtactb,
     accountCode      |-> accountCode,
     description      |-> description,
     level            |-> level,
     month            |-> 1,
     year             |-> selectedYear,
     amount           |-> Int2Num(amount),
     isSyntheticGroup |-> FALSE]

MicroRecords ==
    { expense("DL AN", "4.1", "Logistica", 2, 0),
      expense("DL AN", "4.1", "Logistica", 2, 50),
      expense("DL AN", "4.1.01", "Fretes", 5, 100),
      expense("DL AN", "4.1.02", "Pedagios", 5, 200),
      expense("DL AN", "4.10.01", "Armazenagem", 5, 50),
      expense("DC AN", "3.1.01", "Comissoes", 5, 70) }

\* the category tabs
CategoryTabs == { "ALL", "DC", "DL", "DA", "DF", "GGF", "DP" }

\* the options of the level select
LevelOptions == { "ALL", "3", "4", "5" }

SearchTerms == { "", "4.1" }

InitMicro ==
    /\ pc = "micro"
    /\ data \in SeqsUpTo(MicroRecords, MaxMicroRecords)
    /\ focusedAccount = Null
    /\ history = <<>>
    /\ selectedCategory = "ALL"
    /\ selectedLevel = "ALL"
    /\ searchTerm = ""
    /\ limit = PAGE_SIZE
    /\ groupBy = "CATEGORY"
    /\ thresholds = DEFAULT_THRESHOLDS
    /\ deviations = <<>>
    /\ NoStatus
    /\ NoView
    /\ NoPareto
    /\ NoForecast
    /\ NoHeatmap
    /\ NoRaw
    /\ NoPeriod

microOther == <<pc, data, groupBy, thresholds, deviations, statusVars, viewVars, pareto, forecastVars,
                heatVars, rawVars, periodVars>>

\* the focus and the breadcrumb handleDrillDown(row) sets: the current focus, if
\* any, is pushed on the history and the row becomes the focus
afterDrillDown(focus, hist, row) ==
    [focusedAccount |-> row,
     history        |-> IF focus # Null THEN Append(hist, focus) ELSE hist]

\* handleBack that always goes to the root, whatever the history
afterBack_toRoot(focus, hist) == [focusedAccount |-> Null, history |-> <<>>]

\* the focus and the breadcrumb handleBack sets: the last item of the history
\* becomes the focus, or the view goes to the root when the history is empty
afterBack(focus, hist) ==
    IF Len(hist) > 0
    THEN [focusedAccount |-> hist[Len(hist)], history |-> SubSeq(hist, 1, Len(hist) - 1)]
    ELSE [focusedAccount |-> Null, history |-> <<>>]

\* click on a displayed row
handleDrillDown ==
    /\ pc = "micro"
    /\ \E i \in 1..Len(displayedData) :
          /\ history' = afterDrillDown(focusedAccount, history, displayedData[i]).history
          /\ focusedAccount' = afterDrillDown(focusedAccount, history, displayedData[i]).focusedAccount
    /\ selectedLevel' = "ALL"
    /\ limit' = PAGE_SIZE
    /\ searchTerm' = ""
    /\ UNCHANGED <<selectedCategory, microOther>>

\* the back button, rendered while an account is focused
handleBack ==
    /\ pc = "micro"
    /\ focusedAccount # Null
    /\ history' = afterBack(focusedAccount, history).history
    /\ focusedAccount' = afterBack(focusedAccount, history).focusedAccount
    /\ selectedLevel' = "ALL"
    /\ limit' = PAGE_SIZE
    /\ UNCHANGED <<selectedCategory, searchTerm, microOther>>

\* the root crumb of the breadcrumb
handleResetToRoot ==
    /\ pc = "micro"
    /\ focusedAccount' = Null
    /\ history' = <<>>
    /\ selectedLevel' = "ALL"
    /\ limit' = PAGE_SIZE
    /\ UNCHANGED <<selectedCategory, searchTerm, microOther>>

\* a category tab; it ends with handleResetToRoot()
handleCategorySelect ==
    /\ pc = "micro"
    /\ \E cat \in CategoryTabs : selectedCategory' = cat
    /\ focusedAccount' = Null
    /\ history' = <<>>
    /\ selectedLevel' = "ALL"
    /\ limit' = PAGE_SIZE
    /\ UNCHANGED <<searchTerm, microOther>>

\* a crumb of the breadcrumb; index counts from 0 in the source
handleJumpToHistory ==
    /\ pc = "micro"
    /\ \E index \in 0..(Len(history) - 1) :
          /\ focusedAccount' = history[index + 1]
          /\ history' = SubSeq(history, 1, index)
    /\ UNCHANGED <<selectedCategory, selectedLevel, searchTerm, limit, microOther>>

\* onChange of the search box
SetSearchTerm ==
    /\ pc = "micro"
    /\ \E term \in SearchTerms : searchTerm' = term
    /\ UNCHANGED <<focusedAccount, history, selectedCategory, selectedLevel, limit, microOther>>

\* onChange of the level select, rendered inside a real account only
SetSelectedLevel ==
    /\ pc = "micro"
    /\ focusedAccount # Null
    /\ ~focusedAccount.isSyntheticGroup
    /\ \E option \in LevelOptions : selectedLevel' = option
    /\ UNCHANGED <<focusedAccount, history, selectedCategory, searchTerm, limit, microOther>>

NextMicro ==
    \/ handleDrillDown
    \/ handleBack
    \/ handleResetToRoot
    \/ handleCategorySelect
    \/ handleJumpToHistory
    \/ SetSearchTerm
    \/ SetSelectedLevel

SpecMicro == InitMicro /\ [][NextMicro]_vars

\* the level-5 records of the group that the parent code `key' owns: the code
\* itself or a code below it
ownedLeaves(groupItems, key) ==
    LET isOwned(d) == /\ d.level = 5
                      /\ (d.accountCode = key \/ startsWith(d.accountCode, key \o "."))
    IN  SelectSeq(groupItems, isOwned)

\* C8: in the group view, a level-2 account whose stored total is below 0.01 in
\* magnitude shows the sum of exactly the level-5 records whose accountCode is
\* the parent code or starts with the parent code followed by "."
C8_FallbackSumsOwnChildren ==
    (focusedAccount # Null /\ focusedAccount.isSyntheticGroup) =>
        \A i \in 1..Len(filteredData) :
            LET groupItems == groupItemsOf(focusedAccount.idCtactb)
                key        == filteredData[i].accountCode
            IN  isNearZero(sumAmounts(l2RowsOf(groupItems, key))) =>
                    filteredData[i].amount = sumAmounts(ownedLeaves(groupItems, key))

(***************************************************************************)
(* generateForecast: trend, seasonality, volatility, scenarios, drivers    *)
(***************************************************************************)
MONTH_NAMES == << "Jan", "Fev", "Mar", "Abr", "Mai", "Jun",
                 "Jul", "Ago", "Set", "Out", "Nov", "Dez" >>

\* CATEGORY_MAP[cat] || cat
categoryLabel(cat) ==
    IF cat \in { "DC", "DL", "DA", "DF", "GGF", "DP", "ROL" } THEN determineCategoryName(cat)
    ELSE cat

\* values.reduce((a, b) => a + b, 0)
RECURSIVE sumNums(_)
sumNums(values) ==
    IF values = <<>> THEN Zero
    ELSE NumAdd(sumNums(SubSeq(values, 1, Len(values) - 1)), values[Len(values)])

\* the largest r with r * r <= q
RECURSIVE isqrtStep(_, _)
isqrtStep(q, r) ==
    LET next == (r + q \div r) \div 2
    IN  IF next >= r THEN r ELSE isqrtStep(q, next)

isqrt(q) == IF q = 0 THEN 0 ELSE isqrtStep(q, q)

\* the resolution of square roots: they are rounded down to a multiple of 1 / SqrtScale
SqrtScale == 100

\* Math.sqrt: NaN for NaN and for negative numbers, Infinity for Infinity
MathSqrt(x) ==
    IF isNaN(x) \/ NumLt(x, Zero) THEN NaN
    ELSE IF x.d = 0 THEN x
    ELSE Num(isqrt((x.n * SqrtScale * SqrtScale) \div x.d), SqrtScale)

getLinearRegression(y) ==
    LET n     == Int2Num(Len(y))
        x     == [i \in 1..Len(y) |-> Int2Num(i - 1)]
        sumX  == sumNums(x)
        sumY  == sumNums(y)
        sumXY == sumNums([i \in 1..Len(y) |-> NumMul(x[i], y[i])])
        sumXX == sumNums([i \in 1..Len(y) |-> NumMul(x[i], x[i])])
        slope == NumDiv(NumSub(NumMul(n, sumXY), NumMul(sumX, sumY)),
                        NumSub(NumMul(n, sumXX), NumMul(sumX, sumX)))
        intercept == NumDiv(NumSub(sumY, NumMul(slope, sumX)), n)
    IN  [slope |-> slope, intercept |-> intercept]

getStandardDeviation(arr) ==
    IF Len(arr) = 0 THEN Zero
    ELSE LET n    == Int2Num(Len(arr))
             mean == NumDiv(sumNums(arr), n)
             squares == [i \in 1..Len(arr) |->
                            NumMul(NumSub(arr[i], mean), NumSub(arr[i], mean))]
         IN  MathSqrt(NumDiv(sumNums(squares), n))

\* `${year}-${String(month).padStart(2, '0')}`
paddedKey(year, month) ==
    ToString(year) \o "-" \o (IF month >= 0 /\ month < 10 THEN "0" ELSE "") \o ToString(month)

\* `${futureYear}-${futureMonth}`
plainKey(year, month) == ToString(year) \o "-" \o ToString(month)

\* a filter that keeps every record, budget and revenue included
expensesOf_keepsAll(items) == items

\* data.filter(d => d.dataType === 'REAL' && d.category !== 'ROL')
expensesOf(items) ==
    LET isExpense(d) == d.dataType = "REAL" /\ d.category # "ROL"
    IN  SelectSeq(items, isExpense)

\* x || 0 on numbers
orZero(x) == IF isNaN(x) \/ x = Zero THEN Zero ELSE x

\* map.get(key) after the first k expenses were added to the map
RECURSIVE totalAfter(_, _, _)
totalAfter(expenses, key, k) ==
    IF k = 0 THEN Zero
    ELSE LET d == expenses[k]
         IN  IF paddedKey(d.year, d.month) = key
             THEN NumAdd(orZero(totalAfter(expenses, key, k - 1)), d.amount)
             ELSE totalAfter(expenses, key, k - 1)

\* monthlyTotals.has(key)
hasMonth(expenses, key) ==
    \E i \in 1..Len(expenses) : paddedKey(expenses[i].year, expenses[i].month) = key

\* monthlyTotals.get(key)
monthlyTotal(expenses, key) == totalAfter(expenses, key, Len(expenses))

\* categoryMonthlyTotals.get(cat).get(key) || 0
categoryMonthlyTotal(expenses, cat, key) ==
    LET ofCat(d) == d.category = cat
        ofCategory == SelectSeq(expenses, ofCat)
    IN  orZero(totalAfter(ofCategory, key, Len(ofCategory)))

\* the order of Array.prototype.sort() without a comparator: the elements are
\* compared as strings, code unit by code unit
RECURSIVE stringBefore(_, _)
stringBefore(a, b) ==
    LET units == "-.0123456789"
        rank(c) == CHOOSE k \in 1..Len(units) : SubSeq(units, k, k) = c
    IN  IF b = "" THEN FALSE
        ELSE IF a = "" THEN TRUE
        ELSE IF SubSeq(a, 1, 1) = SubSeq(b, 1, 1)
        THEN stringBefore(SubSeq(a, 2, Len(a)), SubSeq(b, 2, Len(b)))
        ELSE rank(SubSeq(a, 1, 1)) < rank(SubSeq(b, 1, 1))

\* years[0] and years[years.length - 1] of Array.from(new Set(expenses.map(d => d.year))).sort()
yearRangeOf(expenses) ==
    LET yearSet == { expenses[i].year : i \in 1..Len(expenses) }
    IN  [startYear |-> CHOOSE y \in yearSet :
                           \A z \in yearSet \ { y } : stringBefore(ToString(y), ToString(z)),
         endYear   |-> CHOOSE y \in yearSet :
                           \A z \in yearSet \ { y } : stringBefore(ToString(z), ToString(y))]

\* the calendar months from January of startYear to December of endYear
slotsOf(range) ==
    [k \in 1..(12 * (range.endYear - range.startYear + 1)) |->
        [year  |-> range.startYear + (k - 1) \div 12,
         month |-> ((k - 1) % 12) + 1]]

\* a time series with a point for every month of the range, 0 where there is no data
timeSeriesOf_zeroFilled(expenses) ==
    LET slots == slotsOf(yearRangeOf(expenses))
    IN  [i \in 1..Len(slots) |->
            [t     |-> i - 1,
             val   |-> monthlyTotal(expenses, paddedKey(slots[i].year, slots[i].month)),
             month |-> slots[i].month,
             year  |-> slots[i].year,
             key   |-> paddedKey(slots[i].year, slots[i].month)]]

\* the months from January of the first year to December of the last year that have data
timeSeriesOf(expenses) ==
    LET slots     == slotsOf(yearRangeOf(expenses))
        hasData(slot) == hasMonth(expenses, paddedKey(slot.year, slot.month))
        present   == SelectSeq(slots, hasData)
    IN  [i \in 1..Len(present) |->
            [t     |-> i - 1,
             val   |-> monthlyTotal(expenses, paddedKey(present[i].year, present[i].month)),
             month |-> present[i].month,
             year  |-> present[i].year,
             key   |-> paddedKey(present[i].year, present[i].month)]]

\* the roll of the month without the futureYear++ of the loop
wrapMonth_sameYear(futureMonth, futureYear) ==
    [month |-> ((futureMonth - 1) % 12) + 1, year |-> futureYear]

\* while (futureMonth > 12) { futureMonth -= 12; futureYear++; }
RECURSIVE wrapMonth(_, _)
wrapMonth(futureMonth, futureYear) ==
    IF futureMonth > 12 THEN wrapMonth(futureMonth - 12, futureYear + 1)
    ELSE [month |-> futureMonth, year |-> futureYear]

\* the return value for an input without expenses
emptyForecast ==
    [chartData |-> <<>>,
     monthlyProjections |-> <<>>,
     nextYearTotal |-> [base |-> Zero, optimistic |-> Zero, pessimistic |-> Zero],
     drivers |-> <<>>,
     seasonalityInsights |-> <<>>]

\* the value of a `const': the one element of a singleton set
only(S) == CHOOSE v \in S : TRUE

\* slope * t + intercept
trendAt(reg, t) == NumAdd(NumMul(reg.slope, Int2Num(t)), reg.intercept)

\* trendValue !== 0 ? point.val / trendValue : 1
ratioOf(reg, point) ==
    IF NumEq(trendAt(reg, point.t), Zero) THEN Int2Num(1)
    ELSE NumDiv(point.val, trendAt(reg, point.t))

\* 3. seasonalIndices: the average ratio of each calendar month, 1 for a month without data
seasonalIndicesOf(reg, timeSeries) ==
    [m \in 1..12 |->
        LET inMonth(point) == point.month = m
            points == SelectSeq(timeSeries, inMonth)
            ratios == [i \in 1..Len(points) |-> ratioOf(reg, points[i])]
        IN  IF Len(points) > 0 THEN NumDiv(sumNums(ratios), Int2Num(Len(points)))
            ELSE Int2Num(1)]

\* the months with avgRatio > 1.05, sorted by factor (the description text is left out)
seasonalityInsightsOf(seasonalIndices) ==
    LET isSeasonal(m) == NumLt(Num(105, 100), seasonalIndices[m])
        months == SelectSeq([m \in 1..12 |-> m], isSeasonal)
    IN  sortDescendingBy([i \in 1..Len(months) |->
                             [month  |-> MONTH_NAMES[months[i]],
                              factor |-> seasonalIndices[months[i]]]], "factor")

\* 4. the residuals point.val - trend * seasonality
residualsOf(reg, seasonalIndices, timeSeries) ==
    [i \in 1..Len(timeSeries) |->
        NumSub(timeSeries[i].val,
               NumMul(trendAt(reg, timeSeries[i].t), seasonalIndices[timeSeries[i].month]))]

\* 5a. a historical point of the chart
historicalPoint(pt) ==
    [dateKey    |-> pt.key,
     monthIndex |-> pt.month,
     year       |-> pt.year,
     monthName  |-> MONTH_NAMES[pt.month],
     historical |-> pt.val,
     scenarioBase        |-> pt.val,
     scenarioOptimistic  |-> pt.val,
     scenarioPessimistic |-> pt.val,
     isProjected |-> FALSE]

\* 5b. the i-th projected point after the last historical point
projectedPoint(reg, seasonalIndices, stdDev, last, i) ==
    LET future      == wrapMonth(last.month + i, last.year)
        trend       == trendAt(reg, last.t + i)
        seasonal    == seasonalIndices[future.month]
        baseVal     == MathMax(Zero, NumMul(trend, seasonal))
        uncertainty == NumMul(stdDev, NumAdd(Int2Num(1), Num(i * 5, 100)))
    IN  [dateKey    |-> paddedKey(future.year, future.month),
         monthIndex |-> future.month,
         year       |-> future.year,
         monthName  |-> MONTH_NAMES[future.month],
         scenarioBase        |-> baseVal,
         scenarioOptimistic  |-> MathMax(Zero, NumSub(baseVal, uncertainty)),
         scenarioPessimistic |-> MathMax(Zero, NumAdd(baseVal, uncertainty)),
         isProjected |-> TRUE]

\* monthlyProjections[`${futureYear}-${futureMonth}`] = baseVal, a later point overwriting
monthlyProjectionsOf(projected) ==
    LET keys == [i \in 1..Len(projected) |-> plainKey(projected[i].year, projected[i].monthIndex)]
    IN  only({ [key \in { ks[i] : i \in 1..Len(ks) } |->
                   projected[CHOOSE i \in 1..Len(ks) :
                                /\ ks[i] = key
                                /\ \A j \in (i + 1)..Len(ks) : ks[j] # key].scenarioBase]
               : ks \in { keys } })

\* nextYearTotal: the three running sums over the projected points
nextYearTotalOf(projected) ==
    [base        |-> sumNums([i \in 1..Len(projected) |-> projected[i].scenarioBase]),
     optimistic  |-> sumNums([i \in 1..Len(projected) |-> projected[i].scenarioOptimistic]),
     pessimistic |-> sumNums([i \in 1..Len(projected) |-> projected[i].scenarioPessimistic])]

\* 6. the driver of one category
driverOf(expenses, timeSeries, cat) ==
    only({ [category     |-> cat,
            categoryName |-> categoryLabel(cat),
            trendSlope   |-> getLinearRegression(catValues).slope,
            totalImpact  |-> sumNums(catValues),
            correlation  |->
                IF NumLt(Zero, NumDiv(sumNums(catValues), Int2Num(Len(catValues))))
                THEN NumDiv(getLinearRegression(catValues).slope,
                            NumDiv(sumNums(catValues), Int2Num(Len(catValues))))
                ELSE Zero]
           : catValues \in { [i \in 1..Len(timeSeries) |->
                                categoryMonthlyTotal(expenses, cat, timeSeries[i].key)] } })

\* the drivers in the order the categories were first seen, sorted by slope
driversOf(expenses, timeSeries) ==
    LET categories == distinctInOrder([i \in 1..Len(expenses) |-> expenses[i].category])
    IN  sortDescendingBy([i \in 1..Len(categories) |->
                             driverOf(expenses, timeSeries, categories[i])], "trendSlope")

\* steps 5 and 6 and the return value, from the trend, the seasonality and the volatility
forecastFrom(expenses, timeSeries, reg, seasonalIndices, stdDev, horizon) ==
    only({ [chartData |-> [i \in 1..Len(timeSeries) |-> historicalPoint(timeSeries[i])] \o projected,
            monthlyProjections |-> monthlyProjectionsOf(projected),
            nextYearTotal |-> nextYearTotalOf(projected),
            drivers |-> driversOf(expenses, timeSeries),
            seasonalityInsights |-> seasonalityInsightsOf(seasonalIndices)]
           : projected \in { [i \in 1..horizon |->
                                projectedPoint(reg, seasonalIndices, stdDev,
                                               timeSeries[Len(timeSeries)], i)] } })

\* step 4, from the trend and the seasonality
forecastFromSeasonality(expenses, timeSeries, reg, seasonalIndices, horizon) ==
    only({ forecastFrom(expenses, timeSeries, reg, seasonalIndices, stdDev, horizon)
           : stdDev \in { getStandardDeviation(residualsOf(reg, seasonalIndices, timeSeries)) } })

\* step 3, from the trend
forecastFromTrend(expenses, timeSeries, reg, horizon) ==
    only({ forecastFromSeasonality(expenses, timeSeries, reg, seasonalIndices, horizon)
           : seasonalIndices \in { seasonalIndicesOf(reg, timeSeries) } })

\* step 2, from the time series
forecastFromSeries(expenses, timeSeries, horizon) ==
    only({ forecastFromTrend(expenses, timeSeries, reg, horizon)
           : reg \in { getLinearRegression([i \in 1..Len(timeSeries) |-> timeSeries[i].val]) } })

\* step 1, from the expenses
forecastFromExpenses(expenses, horizon) ==
    IF Len(expenses) = 0 THEN emptyForecast
    ELSE only({ forecastFromSeries(expenses, timeSeries, horizon)
                : timeSeries \in { timeSeriesOf(expenses) } })

generateForecast(items, horizon) ==
    only({ forecastFromExpenses(expenses, horizon) : expenses \in { expensesOf(items) } })

(***************************************************************************)
(* SpecForecast: generateForecast applied to every ledger of at most       *)
(* MaxForecastRecords records drawn from ForecastRecords.                  *)
(***************************************************************************)
MaxForecastRecords == 3

\* the horizon ProjectionView passes
DEFAULT_HORIZON == 12

MaxHorizon == 25

Horizons == { 0, 1, DEFAULT_HORIZON, MaxHorizon }

ledgerEntry(dataType, idCtactb, level, year, month, amount) ==
    [dataType     |-> dataType,
     category     |-> determineCategory(idCtactb),
     categoryName |-> determineCategoryName(determineCategory(idCtactb)),
     idCtactb     |-> idCtactb,
     level        |-> level,
     year         |-> year,
     month        |-> month,
     amount       |-> Int2Num(amount)]

ForecastRecords ==
    { ledgerEntry("REAL", "DC AN", 5, 2023, 1, 1),
      ledgerEntry("REAL", "DC AN", 5, 2024, 1, 2),
      ledgerEntry("REAL", "DL AN", 5, 2023, 1, 0),
      ledgerEntry("REAL", "DL AN", 5, 2024, 1, 3),
      ledgerEntry("REAL", "DL AN", 2, 2024, 1, -1),
      ledgerEntry("REAL", "DC AN", 5, 2024, 12, 5),
      ledgerEntry("REAL", "ROL", 5, 2024, 1, 9),
      ledgerEntry("ORCADO", "DC AN", 5, 2024, 2, 4) }

InitForecast ==
    /\ pc = "idle"
    /\ data \in SeqsUpTo(ForecastRecords, MaxForecastRecords)
    /\ projectionMonths = 0
    /\ forecast = <<>>
    /\ groupBy = "CATEGORY"
    /\ thresholds = DEFAULT_THRESHOLDS
    /\ deviations = <<>>
    /\ NoStatus
    /\ NoView
    /\ NoPareto
    /\ NoMicro
    /\ NoHeatmap
    /\ NoRaw
    /\ NoPeriod

\* a caller evaluates generateForecast(data, projectionMonths)
CallGenerateForecast ==
    /\ pc = "idle"
    /\ \E horizon \in Horizons :
          /\ projectionMonths' = horizon
          /\ forecast' = generateForecast(data, horizon)
    /\ pc' = "done"
    /\ UNCHANGED <<data, groupBy, thresholds, deviations, statusVars, viewVars, pareto, microVars, heatVars, rawVars, periodVars>>

NextForecast == CallGenerateForecast

SpecForecast == InitForecast /\ [][NextForecast]_vars

\* the projected points of the result
projectedOf(result) ==
    LET isProjected(point) == point.isProjected
    IN  SelectSeq(result.chartData, isProjected)

\* C7: with at least one ACTUAL non-revenue record, whatever the number of
\* historical months, the sign of the amounts and the horizon, the three
\* scenarios of every projected point are numbers >= 0
C7_ScenariosNonNegative ==
    (pc = "done" /\ Len(expensesOf(data)) > 0) =>
        \A i \in 1..Len(projectedOf(forecast)) :
            LET point == projectedOf(forecast)[i]
            IN  /\ NumLe(Zero, point.scenarioBase)
                /\ NumLe(Zero, point.scenarioOptimistic)
                /\ NumLe(Zero, point.scenarioPessimistic)


\* C13: an input without any ACTUAL non-revenue record (empty, all revenue,
\* all budget) gives the empty result: no chart points, no monthly
\* projections, the three totals 0, no drivers and no seasonality insights
C13_EmptyForecast ==
    (/\ pc = "done"
     /\ \A i \in 1..Len(data) : data[i].dataType # "REAL" \/ data[i].category = "ROL") =>
        /\ forecast.chartData = <<>>
        /\ DOMAIN forecast.monthlyProjections = {}
        /\ forecast.nextYearTotal = [base |-> Zero, optimistic |-> Zero, pessimistic |-> Zero]
        /\ forecast.drivers = <<>>
        /\ forecast.seasonalityInsights = <<>>

C13_Witness ==
    /\ pc = "done"
    /\ projectionMonths = DEFAULT_HORIZON
    /\ \E i \in 1..Len(data) : data[i].dataType = "REAL" /\ data[i].category = "ROL"
    /\ \E i \in 1..Len(data) : data[i].dataType = "ORCADO" /\ data[i].category # "ROL"
    /\ forecast.chartData = <<>>
    /\ forecast.drivers = <<>>

(***************************************************************************)
(* generateHeatmapData: one row per category, one cell per month           *)
(***************************************************************************)
\* x placed into an ascending list of numbers, after the elements that do not exceed it
insertNumber(sorted, x) ==
    LET later == { i \in 1..Len(sorted) : x < sorted[i] }
        at    == IF later = {} THEN Len(sorted) + 1
                 ELSE CHOOSE i \in later : \A j \in later : i <= j
    IN  SubSeq(sorted, 1, at - 1) \o <<x>> \o SubSeq(sorted, at, Len(sorted))

\* [...numbers].sort((a, b) => a - b)
RECURSIVE sortNumbers(_)
sortNumbers(numbers) ==
    IF numbers = <<>> THEN <<>>
    ELSE insertNumber(sortNumbers(SubSeq(numbers, 1, Len(numbers) - 1)), numbers[Len(numbers)])

\* MONTH_NAMES[m - 1], undefined outside the array
monthNameOf(m) == IF m \in 1..Len(MONTH_NAMES) THEN MONTH_NAMES[m] ELSE "undefined"

getMonthsForPeriod(monthList) ==
    LET sortedMonths == sortNumbers(monthList)
    IN  [i \in 1..Len(sortedMonths) |->
            [name |-> monthNameOf(sortedMonths[i]), index |-> sortedMonths[i]]]

\* items.reduce((sum, item) => sum + (item.amount || 0), 0)
RECURSIVE sumAmountsOrZero(_)
sumAmountsOrZero(items) ==
    IF items = <<>> THEN Zero
    ELSE NumAdd(sumAmountsOrZero(SubSeq(items, 1, Len(items) - 1)),
                orZero(items[Len(items)].amount))

\* budgetMag !== 0 ? (diff / budgetMag) * 100 : 0
heatmapPerc(real, budget) ==
    IF MathAbs(budget) # Zero
    THEN NumMul(NumDiv(NumSub(MathAbs(real), MathAbs(budget)), MathAbs(budget)), Hundred)
    ELSE Zero

\* the cell of category cat and month m
heatmapCell(items, cat, m) ==
    LET isReal(d)   == d.month = m.index /\ d.category = cat /\ d.dataType = "REAL"
        isBudget(d) == d.month = m.index /\ d.category = cat /\ d.dataType = "ORCADO"
    IN  only({ [diff   |-> NumSub(MathAbs(totals.real), MathAbs(totals.budget)),
                perc   |-> heatmapPerc(totals.real, totals.budget),
                real   |-> totals.real,
                budget |-> totals.budget]
               : totals \in { [real   |-> sumAmountsOrZero(SelectSeq(items, isReal)),
                               budget |-> sumAmountsOrZero(SelectSeq(items, isBudget))] } })

\* the row object of one category: category, categoryName and one property per month name
heatmapRow(items, monthObjects, cat) ==
    LET names == { monthObjects[i].name : i \in 1..Len(monthObjects) }
        lastNamed(key) == CHOOSE i \in 1..Len(monthObjects) :
            /\ monthObjects[i].name = key
            /\ \A j \in (i + 1)..Len(monthObjects) : monthObjects[j].name # key
    IN  [key \in { "category", "categoryName" } \cup names |->
            IF key \in names THEN heatmapCell(items, cat, monthObjects[lastNamed(key)])
            ELSE IF key = "category" THEN cat
            ELSE categoryLabel(cat)]

generateHeatmapData(items, monthObjects, categories) ==
    [c \in 1..Len(categories) |-> heatmapRow(items, monthObjects, categories[c])]

(***************************************************************************)
(* SpecHeatmap: generateHeatmapData over every ledger of at most           *)
(* MaxHeatRecords records drawn from HeatRecords, for the periods of       *)
(* HeatPeriods and the categories of the deviation view.                   *)
(***************************************************************************)
MaxHeatRecords == 2

\* const CATEGORIES of the deviation view
CATEGORIES == << "DC", "DL", "GGF", "DA", "DF", "DP" >>

HeatAmounts == { Int2Num(-100), Zero, Int2Num(80), Int2Num(100) }

HeatRecords ==
    { [dataType |-> t, category |-> c, month |-> m, amount |-> a]
        : t \in DataTypes, c \in { "DC", "DL" }, m \in { 1, 2 }, a \in HeatAmounts }

HeatPeriods == { <<1>>, <<2, 1>> }

InitHeatmap ==
    /\ pc = "idle"
    /\ data \in SeqsUpTo(HeatRecords, MaxHeatRecords)
    /\ monthsArg \in HeatPeriods
    /\ matrix = <<>>
    /\ filtered = <<>>
    /\ label = ""
    /\ groupBy = "CATEGORY"
    /\ thresholds = DEFAULT_THRESHOLDS
    /\ deviations = <<>>
    /\ NoStatus
    /\ NoView
    /\ NoPareto
    /\ NoMicro
    /\ NoForecast
    /\ NoRaw

\* the deviation view evaluates generateHeatmapData(analysisData, getMonthsForPeriod(selectedMonths), CATEGORIES)
CallGenerateHeatmapData ==
    /\ pc = "idle"
    /\ matrix' = generateHeatmapData(data, getMonthsForPeriod(monthsArg), CATEGORIES)
    /\ pc' = "done"
    /\ UNCHANGED <<data, groupBy, thresholds, deviations, statusVars, viewVars, pareto,
                   microVars, forecastVars, rawVars, periodVars>>

NextHeatmap == CallGenerateHeatmapData

SpecHeatmap == InitHeatmap /\ [][NextHeatmap]_vars

\* C12: for every category and month, whatever the two totals, the cell's diff
\* is |real| - |budget| and its perc is the percDeviation calculateDeviations
\* computes for the same real and budget totals
C12_HeatmapMatchesDeviation ==
    pc = "done" =>
        \A c \in 1..Len(matrix) : \A i \in 1..Len(monthsArg) :
            LET cell == matrix[c][monthNameOf(monthsArg[i])]
            IN  /\ cell.diff = NumSub(MathAbs(cell.real), MathAbs(cell.budget))
                /\ cell.perc = percDeviationOf(cell)


(***************************************************************************)
(* Cell values of a sheet row and the JavaScript conversions applied to    *)
(* them.  A value is undefined, null, a number, a string or a boolean.     *)
(* Strings are parsed as decimal literals; literals with an exponent or a  *)
(* radix prefix do not occur among the modelled cells.                     *)
(***************************************************************************)
Undefined == [t |-> "undefined"]

JsNull == [t |-> "null"]

JsNumber(x) == [t |-> "number", v |-> x]

JsString(s) == [t |-> "string", v |-> s]

JsBoolean(b) == [t |-> "boolean", v |-> b]

\* ToBoolean: what `a || b' tests
truthy(val) ==
    CASE val.t = "number"  -> ~isNaN(val.v) /\ val.v # Zero
      [] val.t = "string"  -> val.v # ""
      [] val.t = "boolean" -> val.v
      [] OTHER             -> FALSE

\* a || b
orElse(a, b) == IF truthy(a) THEN a ELSE b

\* the decimal digits of the fractional part f / d, for d dividing a power of ten
RECURSIVE fractionDigits(_, _)
fractionDigits(f, d) ==
    IF f = 0 THEN ""
    ELSE ToString((f * 10) \div d) \o fractionDigits((f * 10) % d, d)

\* Number.prototype.toString for the numbers of the model
numberToString(x) ==
    IF isNaN(x) THEN "NaN"
    ELSE IF x.d = 0 THEN (IF x.n > 0 THEN "Infinity" ELSE "-Infinity")
    ELSE (IF x.n < 0 THEN "-" ELSE "")
         \o ToString(AbsInt(x.n) \div x.d)
         \o (IF AbsInt(x.n) % x.d = 0 THEN "" ELSE "." \o fractionDigits(AbsInt(x.n) % x.d, x.d))

\* String(val)
String(val) ==
    CASE val.t = "undefined" -> "undefined"
      [] val.t = "null"      -> "null"
      [] val.t = "number"    -> numberToString(val.v)
      [] val.t = "string"    -> val.v
      [] val.t = "boolean"   -> IF val.v THEN "true" ELSE "false"

\* str.trimStart()
RECURSIVE trimStart(_)
trimStart(str) ==
    IF Len(str) > 0 /\ SubSeq(str, 1, 1) = " " THEN trimStart(SubSeq(str, 2, Len(str)))
    ELSE str

\* str.trimEnd()
RECURSIVE trimEnd(_)
trimEnd(str) ==
    IF Len(str) > 0 /\ SubSeq(str, Len(str), Len(str)) = " "
    THEN trimEnd(SubSeq(str, 1, Len(str) - 1))
    ELSE str

\* str.trim()
trim(str) == trimEnd(trimStart(str))

Digits == { "0", "1", "2", "3", "4", "5", "6", "7", "8", "9" }

isDigit(c) == c \in Digits

digitValue(c) == CHOOSE k \in 0..9 : ToString(k) = c

\* the length of the run of digits at the start of str
RECURSIVE digitRun(_)
digitRun(str) ==
    IF Len(str) > 0 /\ isDigit(SubSeq(str, 1, 1)) THEN 1 + digitRun(SubSeq(str, 2, Len(str)))
    ELSE 0

\* the value of a string of digits
RECURSIVE digitsValue(_)
digitsValue(str) ==
    IF str = "" THEN 0
    ELSE 10 * digitsValue(SubSeq(str, 1, Len(str) - 1)) + digitValue(SubSeq(str, Len(str), Len(str)))

\* 10 to the power k
RECURSIVE powerOfTen(_)
powerOfTen(k) == IF k = 0 THEN 1 ELSE 10 * powerOfTen(k - 1)

hasSign(str) == Len(str) > 0 /\ SubSeq(str, 1, 1) \in { "+", "-" }

signOf(str) == IF Len(str) > 0 /\ SubSeq(str, 1, 1) = "-" THEN -1 ELSE 1

unsigned(str) == IF hasSign(str) THEN SubSeq(str, 2, Len(str)) ELSE str

\* parseInt(str): optional sign and the leading digits, NaN without a digit
parseInt(str) ==
    LET body == unsigned(trimStart(str))
        run  == digitRun(body)
    IN  IF run = 0 THEN NaN
        ELSE Int2Num(signOf(trimStart(str)) * digitsValue(SubSeq(body, 1, run)))

\* Number(str): 0 for the empty string, a decimal literal, an infinity, else NaN
stringToNumber(str) ==
    LET text     == trim(str)
        body     == unsigned(text)
        whole    == digitRun(body)
        rest     == SubSeq(body, whole + 1, Len(body))
        hasPoint == Len(rest) > 0 /\ SubSeq(rest, 1, 1) = "."
        decimals == IF hasPoint THEN SubSeq(rest, 2, Len(rest)) ELSE ""
    IN  IF text = "" THEN Zero
        ELSE IF body = "Infinity" THEN Num(signOf(text), 0)
        ELSE IF (hasPoint \/ rest = "") /\ digitRun(decimals) = Len(decimals)
                /\ whole + Len(decimals) > 0
        THEN Num(signOf(text) * (digitsValue(SubSeq(body, 1, whole)) * powerOfTen(Len(decimals))
                                 + digitsValue(decimals)),
                 powerOfTen(Len(decimals)))
        ELSE NaN

\* Number(val)
toNumber(val) ==
    CASE val.t = "undefined" -> NaN
      [] val.t = "null"      -> Zero
      [] val.t = "number"    -> val.v
      [] val.t = "string"    -> stringToNumber(val.v)
      [] val.t = "boolean"   -> IF val.v THEN Int2Num(1) ELSE Zero


(***************************************************************************)
(* Dates.  A Date is invalid or a UTC day number (days since 1970-01-01)   *)
(* with an hour of the day.  The engine record holds what the build        *)
(* decides: the timezone of the browser (hours east of UTC) and the Date   *)
(* its fallback parser makes of a string that has a digit but is not in    *)
(* the ISO format, which the language leaves to the implementation.        *)
(***************************************************************************)
InvalidDate == [valid |-> FALSE]

DateAt(day, hour) == [valid |-> TRUE, day |-> day, hour |-> hour]

\* the civil date (proleptic Gregorian) of a day number
civilFromDays(days) ==
    LET z   == days + 719468
        era == z \div 146097
        doe == z - era * 146097
        yoe == (doe - doe \div 1460 + doe \div 36524 - doe \div 146096) \div 365
        doy == doe - (365 * yoe + yoe \div 4 - yoe \div 100)
        mp  == (5 * doy + 2) \div 153
        m   == IF mp < 10 THEN mp + 3 ELSE mp - 9
    IN  [year  |-> yoe + era * 400 + (IF m <= 2 THEN 1 ELSE 0),
         month |-> m,
         date  |-> doy - (153 * mp + 2) \div 5 + 1]

\* the day number of a civil date
daysFromCivil(year, month, date) ==
    LET y   == IF month <= 2 THEN year - 1 ELSE year
        era == y \div 400
        yoe == y - era * 400
        doy == (153 * (IF month > 2 THEN month - 3 ELSE month + 9) + 2) \div 5 + date - 1
        doe == yoe * 365 + yoe \div 4 - yoe \div 100 + doy
    IN  era * 146097 + doe - 719468

\* the serial number of 1970-01-01 in a sheet
EXCEL_EPOCH == 25569

\* a time value is at most 8.64e15 ms, that is 100 000 000 days, from the epoch
MAX_DATE_DAYS == 100000000

\* Math.floor on a finite number
floorOf(x) == x.n \div x.d

\* new Date((val - 25569) * 86400 * 1000)
dateFromSerial(val) ==
    IF ~IsFinite(val) \/ NumLt(Int2Num(MAX_DATE_DAYS), MathAbs(NumSub(val, Int2Num(EXCEL_EPOCH))))
    THEN InvalidDate
    ELSE DateAt(floorOf(val) - EXCEL_EPOCH, 0)

\* d.getUTCMonth() + 1, NaN for an invalid date
utcMonthOf(d) == IF d.valid THEN Int2Num(civilFromDays(d.day).month) ELSE NaN

\* d.getUTCFullYear(), NaN for an invalid date
utcFullYearOf(d) == IF d.valid THEN Int2Num(civilFromDays(d.day).year) ELSE NaN

\* the day number of d on the wall clock of the browser
localDayOf(d, engine) == (d.day * 24 + d.hour + engine.timezone) \div 24

\* d.getMonth() + 1 of a valid date
localMonthOf(d, engine) == Int2Num(civilFromDays(localDayOf(d, engine)).month)

\* d.getFullYear() of a valid date
localFullYearOf(d, engine) == Int2Num(civilFromDays(localDayOf(d, engine)).year)

isLeapYear(y) == (y % 4 = 0 /\ y % 100 # 0) \/ y % 400 = 0

daysInMonth(y, m) ==
    IF m = 2 THEN (IF isLeapYear(y) THEN 29 ELSE 28)
    ELSE IF m \in { 4, 6, 9, 11 } THEN 30 ELSE 31

allDigits(str) == Len(str) > 0 /\ digitRun(str) = Len(str)

hasDigit(str) == \E i \in 1..Len(str) : isDigit(SubSeq(str, i, i))

\* the date-only ISO forms YYYY, YYYY-MM and YYYY-MM-DD, which mean midnight UTC
isoDateOf(str) ==
    LET y == digitsValue(SubSeq(str, 1, 4))
        m == IF Len(str) >= 7 THEN digitsValue(SubSeq(str, 6, 7)) ELSE 1
        d == IF Len(str) = 10 THEN digitsValue(SubSeq(str, 9, 10)) ELSE 1
        shaped ==
            /\ Len(str) \in { 4, 7, 10 }
            /\ allDigits(SubSeq(str, 1, 4))
            /\ Len(str) >= 7 => (SubSeq(str, 5, 5) = "-" /\ allDigits(SubSeq(str, 6, 7)))
            /\ Len(str) = 10 => (SubSeq(str, 8, 8) = "-" /\ allDigits(SubSeq(str, 9, 10)))
    IN  IF shaped /\ m \in 1..12 /\ d \in 1..daysInMonth(y, m)
        THEN DateAt(daysFromCivil(y, m, d), 0)
        ELSE InvalidDate

\* new Date(str): the ISO form if str has it, nothing without a digit, else the engine's choice
dateFromString(str, engine) ==
    IF isoDateOf(str).valid THEN isoDateOf(str)
    ELSE IF hasDigit(str) THEN engine.fallbackDate
    ELSE InvalidDate


(***************************************************************************)
(* processRawData: the normalisation of the rows of a sheet                *)
(***************************************************************************)
ptMonths == << "jan", "fev", "mar", "abr", "mai", "jun", "jul", "ago", "set", "out", "nov", "dez" >>

enMonths == << "jan", "feb", "mar", "apr", "may", "jun", "jul", "aug", "sep", "oct", "nov", "dec" >>

\* names.findIndex(m => lowerStr.startsWith(m)), counted from 0, -1 if none
findMonthIndex(names, lowerStr) ==
    LET hits == { i \in 1..Len(names) : startsWith(lowerStr, names[i]) }
    IN  IF hits = {} THEN -1 ELSE (CHOOSE i \in hits : \A j \in hits : i <= j) - 1

\* the part of parseMonth after the number branch
parseMonthText(val, engine) ==
    LET str      == trim(String(val))
        lowerStr == toLowerCase(str)
        num      == parseInt(str)
        idx      == findMonthIndex(ptMonths, lowerStr)
        enIdx    == findMonthIndex(enMonths, lowerStr)
        d        == dateFromString(str, engine)
    IN  IF ~isNaN(num) /\ NumLe(Int2Num(1), num) /\ NumLe(num, Int2Num(12)) THEN num
        ELSE IF idx >= 0 THEN Int2Num(idx + 1)
        ELSE IF enIdx >= 0 THEN Int2Num(enIdx + 1)
        ELSE IF d.valid THEN localMonthOf(d, engine)
        ELSE Int2Num(1)

parseMonth(val, engine) ==
    IF val.t \in { "undefined", "null" } THEN Int2Num(1)
    ELSE IF val.t = "number" /\ NumLe(Int2Num(1), val.v) /\ NumLe(val.v, Int2Num(12))
    THEN Int2Num(floorOf(val.v))
    ELSE IF val.t = "number" /\ NumLt(Int2Num(20000), val.v)
    THEN utcMonthOf(dateFromSerial(val.v))
    ELSE parseMonthText(val, engine)

\* the part of parseYear after the number branch
parseYearText(val, engine) ==
    LET str == trim(String(val))
        num == parseInt(str)
        d   == dateFromString(str, engine)
    IN  IF ~isNaN(num) /\ NumLt(Int2Num(1900), num) /\ NumLt(num, Int2Num(2100)) THEN num
        ELSE IF d.valid THEN localFullYearOf(d, engine)
        ELSE Int2Num(DEFAULT_YEAR)

parseYear(val, engine) ==
    IF val.t \in { "undefined", "null" } THEN Int2Num(DEFAULT_YEAR)
    ELSE IF val.t = "number" /\ NumLt(Int2Num(1900), val.v) /\ NumLt(val.v, Int2Num(2100))
    THEN Int2Num(floorOf(val.v))
    ELSE IF val.t = "number" /\ NumLt(Int2Num(20000), val.v)
    THEN utcFullYearOf(dateFromSerial(val.v))
    ELSE parseYearText(val, engine)


\* safeRow[key]: the value of the last column whose trimmed header is key
cellOf(row, key) ==
    LET hits == { i \in 1..Len(row) : trim(row[i][1]) = key }
    IN  IF hits = {} THEN Undefined
        ELSE row[CHOOSE i \in hits : \A j \in hits : j <= i][2]

\* str.replace(/\./g, '')
RECURSIVE removeDots(_)
removeDots(str) ==
    IF str = "" THEN ""
    ELSE (IF SubSeq(str, 1, 1) = "." THEN "" ELSE SubSeq(str, 1, 1))
         \o removeDots(SubSeq(str, 2, Len(str)))

\* str.replace(',', '.'): the first comma only
RECURSIVE replaceFirstComma(_)
replaceFirstComma(str) ==
    IF str = "" THEN ""
    ELSE IF SubSeq(str, 1, 1) = "," THEN "." \o SubSeq(str, 2, Len(str))
    ELSE SubSeq(str, 1, 1) \o replaceFirstComma(SubSeq(str, 2, Len(str)))

\* the amount of a row from its Total, Valor or Amount cell
parseAmount(rawAmount) ==
    IF rawAmount.t = "number" /\ ~isNaN(rawAmount.v) THEN rawAmount.v
    ELSE LET strVal == trim(String(orElse(rawAmount, JsString(""))))
             num    == stringToNumber(strVal)
             brNum  == stringToNumber(replaceFirstComma(removeDots(strVal)))
         IN  IF strVal = "" THEN Zero
             ELSE IF ~isNaN(num) THEN num
             ELSE IF ~isNaN(brNum) THEN brNum
             ELSE Zero

VARIABLE_EXPENSES_CODES ==
    << "4.3.02.01.0004", "4.3.02.01.0001", "4.3.02.01.0002", "4.3.07.01.0003",
       "4.3.07.01.0004", "4.3.09.01.0015", "4.3.09.01.0001", "4.3.09.01.0016",
       "4.3.99.01.0028", "3.1.02.08.0001", "3.1.02.08.0002", "4.1.02.02.0010",
       "4.1.02.02.0003", "4.1.02.02.0004" >>

\* VARIABLE_EXPENSES_CODES.some(code => ctactb.includes(code))
isVariableCode_includes(ctactb) ==
    \E i \in 1..Len(VARIABLE_EXPENSES_CODES) : includes(ctactb, VARIABLE_EXPENSES_CODES[i])

\* VARIABLE_EXPENSES_CODES.some(code => ctactb === code)
isVariableCode(ctactb) ==
    \E i \in 1..Len(VARIABLE_EXPENSES_CODES) : ctactb = VARIABLE_EXPENSES_CODES[i]

\* safeRow['Mês'] || safeRow['Mes'] || safeRow['Month']
rawMonthOf(row) == orElse(orElse(cellOf(row, "Mês"), cellOf(row, "Mes")), cellOf(row, "Month"))

\* safeRow['Ano'] || safeRow['Year'] || safeRow['Exercise']
rawYearOf(row) == orElse(orElse(cellOf(row, "Ano"), cellOf(row, "Year")), cellOf(row, "Exercise"))

\* safeRow['Nível'] || safeRow['Nivel'] || safeRow['Level'] || 5
rawLevelOf(row) ==
    orElse(orElse(orElse(cellOf(row, "Nível"), cellOf(row, "Nivel")), cellOf(row, "Level")),
           JsNumber(Int2Num(5)))

\* safeRow['Total'] || safeRow['Valor'] || safeRow['Amount']
rawAmountOf(row) == orElse(orElse(cellOf(row, "Total"), cellOf(row, "Valor")), cellOf(row, "Amount"))

\* String(safeRow['CTACTB'] || '').trim()
ctactbOf(row) == trim(String(orElse(cellOf(row, "CTACTB"), JsString(""))))

\* String(safeRow['ID_CTACTB'] || '').trim()
idCtactbOf(row) == trim(String(orElse(cellOf(row, "ID_CTACTB"), JsString(""))))

\* the record data.map builds for the row at `index' (counted from 0); suffix is
\* Math.random().toString(36).substr(2, 9)
processRow(row, index, type, suffix, engine) ==
    LET idCtactb    == idCtactbOf(row)
        ctactb      == ctactbOf(row)
        description == trim(String(orElse(orElse(cellOf(row, "Descrição"), cellOf(row, "Descricao")),
                                          JsString("Sem Descrição"))))
        level       == toNumber(rawLevelOf(row))
        category    == determineCategory(idCtactb)
    IN  [id           |-> toLowerCase(type) \o "-row-" \o ToString(index) \o "-" \o suffix,
         dataType     |-> type,
         category     |-> category,
         categoryName |-> determineCategoryName(category),
         idCtactb     |-> idCtactb,
         accountCode  |-> ctactb,
         description  |-> description,
         level        |-> level,
         month        |-> parseMonth(rawMonthOf(row), engine),
         year         |-> parseYear(rawYearOf(row), engine),
         amount       |-> parseAmount(rawAmountOf(row)),
         isVariable   |-> isVariableCode(ctactb),
         isSynthetic  |-> includes(idCtactb, "ST") \/ level = Int2Num(1)]

\* data.map((row, index) => ...); suffixes[i] is the random suffix drawn for row i
processRawData(rows, type, suffixes, engine) ==
    [i \in 1..Len(rows) |-> processRow(rows[i], i - 1, type, suffixes[i], engine)]


(***************************************************************************)
(* SpecRaw: processRawData over sheets of one row holding one column, for  *)
(* every cell of the pools below, and over sheets of at most MaxRawRows    *)
(* rows drawn from FullRows, under every engine of Engines.                *)
(***************************************************************************)
MaxRawRows == 2

MIN_YEAR == 1900

MAX_YEAR == 2100

\* time zones of the browser (hours east of UTC) and its reading of a string
\* that is not in the ISO format
Engines ==
    { [timezone |-> z, fallbackDate |-> f]
        : z \in { -3, 0, 1 }, f \in { InvalidDate, DateAt(11457, 0) } }

MonthCells ==
    { Undefined, JsNull, JsBoolean(TRUE), JsBoolean(FALSE) }
    \cup { JsNumber(Int2Num(i)) : i \in { -5, 0, 1, 7, 12, 13, 20000, 20001, 45000, 45382, 200000000 } }
    \cup { JsNumber(Num(3, 2)), JsNumber(Num(25, 2)), JsNumber(Num(453825, 10)) }
    \cup { JsString(s) : s \in { "", "0", "3", " 07 ", "12", "13", "mar", "Fev", "SET", "august",
                                 "dezembro", "2024-03-01", "2024-03-15", "2024-13-01", "abc" } }

YearCells ==
    { Undefined, JsNull, JsBoolean(TRUE) }
    \cup { JsNumber(Int2Num(y)) : y \in (MIN_YEAR - 1)..(MAX_YEAR + 1) }
    \cup { JsNumber(Int2Num(i)) : i \in { 0, 24, 20000, 45382, 200000000 } }
    \cup { JsNumber(Num(40489, 20)) }
    \cup { JsString(s) : s \in { "", "2023", "1900", "2100", " 2025 ", "2024-01-01", "2023-12-31", "abc" } }

LevelCells ==
    { Undefined, JsNull, JsBoolean(TRUE) }
    \cup { JsNumber(Int2Num(i)) : i \in 0..5 }
    \cup { JsString(s) : s \in { "", "1", " 3 ", "4.0", "abc", "N5" } }

AmountCells ==
    { Undefined, JsNull, JsBoolean(TRUE), JsNumber(NaN) }
    \cup { JsNumber(Int2Num(i)) : i \in { -50, 0, 100 } }
    \cup { JsNumber(Num(5, 2)) }
    \cup { JsString(s) : s \in { "", "100", " -7.5 ", "1.234,56", "12,5", "1,2,3", "abc", "R$ 10" } }

GroupCells ==
    { Undefined, JsNull, JsNumber(Int2Num(7)) }
    \cup { JsString(s) : s \in { "", "DC", "dl", " Da ", "xDFx", "ggf", "GF", "DP", "rol", "Receita",
                                 "DLDC", "DPDA", "ROLGGF", "GGFDP", "ST-DC", "D C", "OUTROS", "st" } }

AccountCells ==
    { Undefined, JsNull, JsNumber(Int2Num(4)) }
    \cup { JsString(VARIABLE_EXPENSES_CODES[i]) : i \in 1..Len(VARIABLE_EXPENSES_CODES) }
    \cup { JsString(s) : s \in { "", " 4.1.02.02.0010 ", "4.1.02.02.00100", "4.1.02.02.001", "4.1.02.02",
                                 "04.3.02.01.0004", "4.3.02.01.0004.1", "4.3.02.01.0005", "4" } }

DescriptionCells == { Undefined, JsString(""), JsString(" Energia "), JsNumber(Int2Num(0)) }

\* the rows of one column
columnRows(keys, cells) == { << <<k, c>> >> : k \in keys, c \in cells }

SingleRows ==
    columnRows({ "Mês", "Mes", " Month " }, MonthCells)
    \cup columnRows({ "Ano", "Year", "Exercise" }, YearCells)
    \cup columnRows({ "Nível", "Nivel", "Level" }, LevelCells)
    \cup columnRows({ "Total", "Valor", "Amount" }, AmountCells)
    \cup columnRows({ "ID_CTACTB", " ID_CTACTB" }, GroupCells)
    \cup columnRows({ "CTACTB" }, AccountCells)
    \cup columnRows({ "Descrição", "Descricao" }, DescriptionCells)

FullRows ==
    { <<>>,
      << <<"ID_CTACTB", JsString("DC")>>, <<"CTACTB", JsString("4.3.02.01.0001")>>,
         <<"Descrição", JsString("Fretes De Vendas")>>, <<"Mês", JsNumber(Int2Num(3))>>,
         <<"Ano", JsNumber(Int2Num(2024))>>, <<"Nível", JsNumber(Int2Num(5))>>,
         <<"Total", JsNumber(Int2Num(100))>> >>,
      << <<"ID_CTACTB", JsString("ST-GGF")>>, <<"CTACTB", JsString("4.1")>>,
         <<"Mes", JsString("abr")>>, <<"Mês", JsNumber(Int2Num(0))>>,
         <<"Year", JsString("2023")>>, <<"Nivel", JsString("abc")>>,
         <<"Valor", JsString("1.234,56")>>, <<"Total", JsString("")>> >>,
      << <<"Mês ", JsNumber(Int2Num(5))>>, <<" Mês", JsNumber(Int2Num(6))>>,
         <<"Level", JsNumber(Int2Num(1))>>, <<"Amount", JsString("abc")>> >> }

RandomSuffixes == { "", "4fzyo82mv", "x" }

InitRaw ==
    /\ pc = "idle"
    /\ rawData \in { <<row>> : row \in SingleRows } \cup SeqsUpTo(FullRows, MaxRawRows)
    /\ host \in Engines
    /\ processed = <<>>
    /\ NoUpload
    /\ NoDeviation
    /\ thresholds = DEFAULT_THRESHOLDS
    /\ NoStatus
    /\ NoView
    /\ NoPareto
    /\ NoMicro
    /\ NoForecast
    /\ NoHeatmap
    /\ NoPeriod

\* the upload handler evaluates processRawData(realJsonData, 'REAL') or processRawData(budgetJsonData, 'ORCADO')
CallProcessRawData ==
    /\ pc = "idle"
    /\ \E type \in DataTypes, suffixes \in [1..Len(rawData) -> RandomSuffixes] :
           processed' = processRawData(rawData, type, suffixes, host)
    /\ pc' = "done"
    /\ UNCHANGED <<rawData, host, uploadVars, data, groupBy, thresholds, deviations, statusVars, viewVars, pareto,
                   microVars, forecastVars, heatVars, periodVars>>

NextRaw == CallProcessRawData

SpecRaw == InitRaw /\ [][NextRaw]_vars

\* C14: processRawData returns one record per row, in the order of the rows,
\* and a field that is absent or cannot be parsed takes its default: amount 0,
\* month 1, year 2024, level 5
C14_DefaultsForUnparseable ==
    pc = "done" =>
        /\ Len(processed) = Len(rawData)
        /\ \A i \in 1..Len(rawData) :
              /\ processed[i].idCtactb = idCtactbOf(rawData[i])
              /\ processed[i].accountCode = ctactbOf(rawData[i])
              /\ isNaN(toNumber(rawLevelOf(rawData[i]))) => processed[i].level = Int2Num(5)
              /\ rawAmountOf(rawData[i]).t \in { "undefined", "null" } => processed[i].amount = Zero
              /\ rawMonthOf(rawData[i]).t \in { "undefined", "null" } => processed[i].month = Int2Num(1)
              /\ rawYearOf(rawData[i]).t \in { "undefined", "null" } => processed[i].year = Int2Num(DEFAULT_YEAR)
              /\ ~isNaN(processed[i].amount)


\* the markers determineCategory looks for, in the order it tries them, each
\* with the category it gives
CATEGORY_MARKERS ==
    << <<"DC", "DC">>, <<"DL", "DL">>, <<"DA", "DA">>, <<"DF", "DF">>, <<"GGF", "GGF">>,
       <<"DP", "DP">>, <<"ROL", "ROL">>, <<"RECEITA", "ROL">> >>

\* the places of CATEGORY_MARKERS whose marker occurs in the string, whatever the case
markersIn(str) ==
    { k \in 1..Len(CATEGORY_MARKERS) : includes(toUpperCase(str), CATEGORY_MARKERS[k][1]) }

\* C15: the category of every record is the one of the first marker, in the
\* order DC, DL, DA, DF, GGF, DP, ROL/RECEITA, that occurs in its group id
\* whatever the case, and OUTROS when none occurs or the id is empty
C15_FirstMarkerWins ==
    pc = "done" =>
        \A i \in 1..Len(processed) :
            LET hits == markersIn(processed[i].idCtactb)
            IN  /\ processed[i].category \in { "DC", "DL", "DA", "DF", "GGF", "DP", "ROL", "OUTROS" }
                /\ processed[i].category =
                       IF hits = {} THEN "OUTROS"
                       ELSE CATEGORY_MARKERS[CHOOSE k \in hits : \A j \in hits : k <= j][2]

C15_Witness ==
    /\ pc = "done"
    /\ \E i \in 1..Len(processed) : processed[i].idCtactb = "DPDA" /\ processed[i].category = "DA"

\* C16: a record is a variable expense exactly when its account code is equal
\* to an entry of VARIABLE_EXPENSES_CODES; a code that strictly contains an
\* entry, or is a proper prefix of one, is not
C16_ExactCodeMatch ==
    pc = "done" =>
        \A i \in 1..Len(processed) :
            LET code == processed[i].accountCode
                listed == { VARIABLE_EXPENSES_CODES[k] : k \in 1..Len(VARIABLE_EXPENSES_CODES) }
            IN  /\ processed[i].isVariable <=> code \in listed
                /\ (\E c \in listed : c # code /\ (includes(code, c) \/ startsWith(c, code)))
                       => ~processed[i].isVariable

C16_Witness ==
    /\ pc = "done"
    /\ \E i \in 1..Len(processed) :
           processed[i].accountCode = "4.1.02.02.00100" /\ ~processed[i].isVariable


\* C19: the month of every record is an integer from 1 to 12, whatever the
\* month cell of its row holds
C19_MonthInRange ==
    pc = "done" =>
        \A i \in 1..Len(processed) :
            /\ processed[i].month.d = 1
            /\ processed[i].month.n \in 1..12

\* C20: a row whose year cell holds an integer y with 1900 <= y <= 2100 gives
\* a record of year y
C20_PlausibleYearKept ==
    pc = "done" =>
        \A i \in 1..Len(processed) :
            \A y \in MIN_YEAR..MAX_YEAR :
                rawYearOf(rawData[i]) = JsNumber(Int2Num(y)) => processed[i].year = Int2Num(y)


(***************************************************************************)
(* getPeriodLabel and the period presets                                   *)
(***************************************************************************)
\* Object.values(PERIODS), in the order of the keys of the literal
PERIODS ==
    << [key |-> "ALL", label |-> "Ano Completo", months |-> <<1, 2, 3, 4, 5, 6, 7, 8, 9, 10, 11, 12>>],
       [key |-> "Q1",  label |-> "1º Trimestre", months |-> <<1, 2, 3>>],
       [key |-> "Q2",  label |-> "2º Trimestre", months |-> <<4, 5, 6>>],
       [key |-> "Q3",  label |-> "3º Trimestre", months |-> <<7, 8, 9>>],
       [key |-> "Q4",  label |-> "4º Trimestre", months |-> <<10, 11, 12>>],
       [key |-> "S1",  label |-> "1º Semestre",  months |-> <<1, 2, 3, 4, 5, 6>>],
       [key |-> "S2",  label |-> "2º Semestre",  months |-> <<7, 8, 9, 10, 11, 12>>],
       [key |-> "M1",  label |-> "Janeiro",      months |-> <<1>>],
       [key |-> "M2",  label |-> "Fevereiro",    months |-> <<2>>],
       [key |-> "M3",  label |-> "Março",        months |-> <<3>>],
       [key |-> "M4",  label |-> "Abril",        months |-> <<4>>],
       [key |-> "M5",  label |-> "Maio",         months |-> <<5>>],
       [key |-> "M6",  label |-> "Junho",        months |-> <<6>>],
       [key |-> "M7",  label |-> "Julho",        months |-> <<7>>],
       [key |-> "M8",  label |-> "Agosto",       months |-> <<8>>],
       [key |-> "M9",  label |-> "Setembro",     months |-> <<9>>],
       [key |-> "M10", label |-> "Outubro",      months |-> <<10>>],
       [key |-> "M11", label |-> "Novembro",     months |-> <<11>>],
       [key |-> "M12", label |-> "Dezembro",     months |-> <<12>>] >>

\* the same test on the arrays element by element
presetMatches_inOrder(p, months) == PERIODS[p].months = months

\* p.months.length === months.length && p.months.every(m => months.includes(m)),
\* for the preset at place p of PERIODS
presetMatches(p, months) ==
    /\ Len(PERIODS[p].months) = Len(months)
    /\ \A i \in 1..Len(PERIODS[p].months) : monthsInclude(months, PERIODS[p].months[i])

\* names.join(', ')
RECURSIVE joinNames(_)
joinNames(names) ==
    IF names = <<>> THEN ""
    ELSE IF Len(names) = 1 THEN names[1]
    ELSE names[1] \o ", " \o joinNames(SubSeq(names, 2, Len(names)))

\* the label getPeriodLabel returns
getPeriodLabel(months) ==
    LET found == { p \in 1..Len(PERIODS) : presetMatches(p, months) }
        sorted == sortNumbers(months)
    IN  IF Len(months) = 12 THEN "Ano Completo"
        ELSE IF Len(months) = 0 THEN "Nenhum Mês"
        ELSE IF found # {} THEN PERIODS[CHOOSE p \in found : \A q \in found : p <= q].label
        ELSE IF Len(months) = 1 THEN monthNameOf(months[1])
        ELSE IF Len(months) <= 3
        THEN joinNames([i \in 1..Len(sorted) |-> monthNameOf(sorted[i])])
        ELSE ToString(Len(months)) \o " Meses Selecionados"

\* the array handed to getPeriodLabel once it has returned: months.sort() sorts
\* it in place on the path of the custom labels of two or three months
monthsAfterLabel(months) ==
    IF /\ Len(months) \in 2..3
       /\ \A p \in 1..Len(PERIODS) : ~presetMatches(p, months)
    THEN sortNumbers(months)
    ELSE months

(***************************************************************************)
(* SpecPeriod: a view evaluates filterDataByPeriod(data, selectedMonths)   *)
(* and getPeriodLabel(selectedMonths), in either order, over every ledger  *)
(* of at most MaxPeriodRecords records of PeriodRecords and every month    *)
(* selection of MonthSelections.                                           *)
(***************************************************************************)
MaxPeriodRecords == 2

PeriodRecords == { [id |-> i, month |-> mm] : i \in { "a", "b" }, mm \in { 1, 7 } }

\* the arrangements of a list in every order
permutationsOf(list) ==
    { [i \in 1..Len(list) |-> list[f[i]]] :
        f \in { g \in [1..Len(list) -> 1..Len(list)] : \A i, j \in 1..Len(list) : g[i] = g[j] => i = j } }

\* the list started at place k, and the reversed list
rotationOf(list, k) == SubSeq(list, k, Len(list)) \o SubSeq(list, 1, k - 1)

reverseOf(list) == [i \in 1..Len(list) |-> list[Len(list) + 1 - i]]

\* the months of every preset in every order (the twelve months of the full
\* year in every rotation, forwards and backwards)
PresetSelections ==
    UNION { IF Len(PERIODS[p].months) <= 6 THEN permutationsOf(PERIODS[p].months)
            ELSE { rotationOf(PERIODS[p].months, k) : k \in 1..Len(PERIODS[p].months) }
                 \cup { reverseOf(rotationOf(PERIODS[p].months, k)) : k \in 1..Len(PERIODS[p].months) }
            : p \in 1..Len(PERIODS) }

CustomSelections ==
    { <<>>, <<2, 1>>, <<7, 1>>, <<1, 1>>, <<2, 2, 7>>, <<12, 7, 2>>, <<3, 1, 2, 1>>, <<7, 5, 3, 1>>,
      <<1, 2, 3, 4, 5, 7>>, <<1, 1, 2, 3, 4, 5, 6, 7, 8, 9, 10, 11>> }

MonthSelections == PresetSelections \cup CustomSelections

InitPeriod ==
    /\ pc = "idle"
    /\ data \in SeqsUpTo(PeriodRecords, MaxPeriodRecords)
    /\ monthsArg \in MonthSelections
    /\ filtered = <<>>
    /\ label = ""
    /\ groupBy = "CATEGORY"
    /\ thresholds = DEFAULT_THRESHOLDS
    /\ deviations = <<>>
    /\ NoStatus
    /\ NoView
    /\ NoPareto
    /\ NoMicro
    /\ NoForecast
    /\ NoHeatmap
    /\ NoRaw

periodOther == <<groupBy, thresholds, deviations, statusVars, viewVars, pareto,
                 microVars, forecastVars, heatVars, rawVars>>

\* useMemo(() => filterDataByPeriod(data, selectedMonths), [data, selectedMonths])
CallFilterDataByPeriod ==
    /\ pc \in { "idle", "labelled" }
    /\ filtered' = filterDataByPeriod(data, monthsArg)
    /\ pc' = IF pc = "idle" THEN "filtered" ELSE "done"
    /\ UNCHANGED <<data, monthsArg, label, periodOther>>

\* useMemo(() => getPeriodLabel(selectedMonths), [selectedMonths])
CallGetPeriodLabel ==
    /\ pc \in { "idle", "filtered" }
    /\ label' = getPeriodLabel(monthsArg)
    /\ monthsArg' = monthsAfterLabel(monthsArg)
    /\ pc' = IF pc = "idle" THEN "labelled" ELSE "done"
    /\ UNCHANGED <<data, filtered, periodOther>>

NextPeriod == CallFilterDataByPeriod \/ CallGetPeriodLabel

SpecPeriod == InitPeriod /\ [][NextPeriod]_vars

\* the places of the records of `data' whose month is listed in monthsArg
keptPlaces == { i \in 1..Len(data) : \E k \in 1..Len(monthsArg) : monthsArg[k] = data[i].month }

\* C17: filterDataByPeriod returns its records unchanged for an empty list of
\* months, and otherwise exactly the records whose month is listed, in their
\* original order and once each
C17_FilterKeepsListedMonths ==
    pc \in { "filtered", "done" } =>
        IF monthsArg = <<>> THEN filtered = data
        ELSE /\ Len(filtered) = Cardinality(keptPlaces)
             /\ \A k \in 1..Len(filtered) :
                    \E i \in keptPlaces :
                        /\ Cardinality({ j \in keptPlaces : j < i }) = k - 1
                        /\ filtered[k] = data[i]

C17_Witness ==
    /\ pc = "filtered"
    /\ monthsArg = <<2, 2, 7>>
    /\ Len(data) = 2
    /\ data[1].month = 7
    /\ data[2].month = 1
    /\ filtered = <<data[1]>>

\* C18: for every preset of PERIODS, getPeriodLabel of the preset's months in
\* any order is the preset's label
C18_PresetRoundTrip ==
    pc \in { "labelled", "done" } =>
        \A p \in 1..Len(PERIODS) :
            (/\ Len(monthsArg) = Len(PERIODS[p].months)
             /\ \A i \in 1..Len(monthsArg) : monthsInclude(PERIODS[p].months, monthsArg[i])
             /\ \A i \in 1..Len(monthsArg) : monthsInclude(monthsArg, PERIODS[p].months[i]))
                => label = PERIODS[p].label

C18_Witness ==
    /\ pc = "labelled"
    /\ monthsArg = <<9, 7, 8>>
    /\ label = "3º Trimestre"


\* C28: the months array handed to the period functions holds the same
\* elements in the same order after every call
C28_MonthsUntouched == [][monthsArg' = monthsArg]_vars


\* C29: in every state of the MicroView navigation an empty focus comes with an
\* empty breadcrumb history, and a drill-down into any displayed row followed
\* at once by handleBack gives back the focus and the history of before
C29_BackUndoesDrillDown ==
    /\ focusedAccount = Null => history = <<>>
    /\ \A i \in 1..Len(displayedData) :
           LET drilled == afterDrillDown(focusedAccount, history, displayedData[i])
           IN  afterBack(drilled.focusedAccount, drilled.history)
                   = [focusedAccount |-> focusedAccount, history |-> history]

C29_Witness ==
    /\ focusedAccount # Null
    /\ Len(history) >= 1
    /\ Len(displayedData) >= 1


\* the historical points of the result
historicalOf(result) ==
    LET isHistorical(point) == ~point.isProjected
    IN  SelectSeq(result.chartData, isHistorical)

\* the year-months that hold at least one ACTUAL non-revenue record
expenseMonths ==
    { <<expensesOf(data)[i].year, expensesOf(data)[i].month>> : i \in 1..Len(expensesOf(data)) }

C23_NormalizedGrowth ==
    (pc = "done" /\ Cardinality(expenseMonths) >= 2) =>
        \A i \in 1..Len(forecast.drivers) :
            LET driver == forecast.drivers[i]
                avg    == NumDiv(driver.totalImpact, Int2Num(Len(historicalOf(forecast))))
            IN  driver.correlation =
                    IF avg # Zero THEN NumDiv(driver.trendSlope, avg) ELSE Zero


\* C24: for a horizon h >= 1 chartData is the historical points followed by
\* exactly h projected points, and the i-th projected point has a month index
\* from 1 to 12 and is the i-th calendar month after the last historical month
C24_ProjectedMonthsRollForward ==
    (pc = "done" /\ Len(expensesOf(data)) > 0 /\ projectionMonths >= 1) =>
        LET hist == historicalOf(forecast)
            proj == projectedOf(forecast)
            last == hist[Len(hist)]
        IN  /\ forecast.chartData = hist \o proj
            /\ Len(proj) = projectionMonths
            /\ \A i \in 1..Len(proj) :
                   /\ proj[i].monthIndex \in 1..12
                   /\ proj[i].year * 12 + proj[i].monthIndex
                          = last.year * 12 + last.monthIndex + i

C24_Witness ==
    /\ pc = "done"
    /\ projectionMonths = MaxHorizon
    /\ Len(historicalOf(forecast)) >= 2
    /\ historicalOf(forecast)[Len(historicalOf(forecast))].monthIndex = 12
    /\ Len(projectedOf(forecast)) = MaxHorizon


\* the monthly expense total of the general view for one year-month:
\* the sum of the level-5 records that are not revenue
levelFiveTotal(items, year, month) ==
    LET isDetail(d) == d.year = year /\ d.month = month /\ d.category # "ROL" /\ d.level = 5
    IN  sumAmounts(SelectSeq(items, isDetail))

\* C27: the historical value of every year-month of chartData is the sum of the
\* level-5 ACTUAL non-revenue amounts of that year-month
C27_HistoricalIsLevelFiveTotal ==
    (pc = "done" /\ Len(expensesOf(data)) > 0) =>
        \A i \in 1..Len(historicalOf(forecast)) :
            LET point == historicalOf(forecast)[i]
            IN  point.historical = levelFiveTotal(expensesOf(data), point.year, point.monthIndex)


\* C30: at every projected point the optimistic scenario is at most the base
\* scenario, which is at most the pessimistic one, and the same holds for the
\* three totals of nextYearTotal
C30_ScenariosOrdered ==
    (pc = "done" /\ Len(expensesOf(data)) > 0) =>
        /\ \A i \in 1..Len(projectedOf(forecast)) :
               LET point == projectedOf(forecast)[i]
               IN  /\ NumLe(point.scenarioOptimistic, point.scenarioBase)
                   /\ NumLe(point.scenarioBase, point.scenarioPessimistic)
        /\ NumLe(forecast.nextYearTotal.optimistic, forecast.nextYearTotal.base)
        /\ NumLe(forecast.nextYearTotal.base, forecast.nextYearTotal.pessimistic)


(***************************************************************************)
(* The upload screen: FileUpload.handleFile, the FileReader and timer      *)
(* callbacks it sets, and App.handleDataLoaded                             *)
(***************************************************************************)
\* a row of a sheet as XLSX.utils.sheet_to_json gives it
sheetRow(group, year, month, total) ==
    << <<"ID_CTACTB", JsString(group)>>, <<"Ano", JsNumber(Int2Num(year))>>,
       <<"Mês", JsNumber(Int2Num(month))>>, <<"Total", JsNumber(Int2Num(total))>> >>

\* workbook.SheetNames
sheetNamesOf(workbook) == [i \in 1..Len(workbook.sheets) |-> workbook.sheets[i].name]

\* XLSX.utils.sheet_to_json(workbook.Sheets[name])
sheetToJson(workbook, name) ==
    workbook.sheets[CHOOSE i \in 1..Len(workbook.sheets) : workbook.sheets[i].name = name.v].rows

\* workbook.SheetNames[0]
realSheetNameOf(workbook) == JsString(sheetNamesOf(workbook)[1])

\* name.toLowerCase().includes('orçado') || name.toLowerCase().includes('orcado')
isBudgetName(name) ==
    includes(toLowerCase(name), "orçado") \/ includes(toLowerCase(name), "orcado")

\* workbook.SheetNames.find(name => ...), undefined when no name matches
budgetSheetNameOf(workbook) ==
    LET names == sheetNamesOf(workbook)
        found == { i \in 1..Len(names) : isBudgetName(names[i]) }
    IN  IF found = {} THEN Undefined
        ELSE JsString(names[CHOOSE i \in found : \A j \in found : i <= j])

\* [...processedReal, ...processedBudget] of reader.onload; suffixes holds the
\* random suffixes of the first call followed by those of the second
combinedDataOf(workbook, suffixes, engine) ==
    LET realJsonData   == sheetToJson(workbook, realSheetNameOf(workbook))
        budgetName     == budgetSheetNameOf(workbook)
        budgetJsonData == IF budgetName = Undefined THEN <<>> ELSE sheetToJson(workbook, budgetName)
    IN  processRawData(realJsonData, "REAL", SubSeq(suffixes, 1, Len(realJsonData)), engine)
        \o processRawData(budgetJsonData, "ORCADO",
                          SubSeq(suffixes, Len(realJsonData) + 1, Len(suffixes)), engine)

\* the number of Math.random() suffixes reader.onload draws for a workbook
suffixCountOf(workbook) ==
    Len(sheetToJson(workbook, realSheetNameOf(workbook)))
    + (IF budgetSheetNameOf(workbook) = Undefined THEN 0
       ELSE Len(sheetToJson(workbook, budgetSheetNameOf(workbook))))

\* the largest of a non-empty set of numbers
largestOf(S) == CHOOSE x \in S : \A y \in S : NumLe(y, x)

\* Array.from(new Set(uploadedData.map(d => d.year))).sort((a, b) => b - a)
RECURSIVE sortDescending(_)
sortDescending(S) ==
    IF S = {} THEN <<>>
    ELSE <<largestOf(S)>> \o sortDescending(S \ { largestOf(S) })

yearsOf(uploadedData) == sortDescending({ uploadedData[i].year : i \in 1..Len(uploadedData) })

\* availableYears, selectedYear and compareYear after handleDataLoaded(uploadedData)
yearsAfterLoad(current, uploadedData) ==
    LET years == yearsOf(uploadedData)
    IN  [availableYears |-> years,
         selectedYear   |-> IF Len(years) > 0 THEN years[1].n ELSE current.selectedYear,
         compareYear    |-> IF Len(years) > 1 THEN years[2].n
                            ELSE IF Len(years) > 0 THEN years[1].n
                            ELSE current.compareYear]

(***************************************************************************)
(* SpecUpload: at most MaxUploads files of UploadFiles are dropped on the  *)
(* upload screen; their reads complete in any order, and each read sets a  *)
(* timer that hands the records to the application.                        *)
(***************************************************************************)
MaxUploads == 2

\* files the reader cannot parse, and workbooks with and without a budget sheet
UploadFiles ==
    { [readable |-> FALSE, sheets |-> <<>>],
      [readable |-> TRUE,
       sheets |-> << [name |-> "Real",   rows |-> << sheetRow("DC", 2024, 1, 100) >>],
                     [name |-> "Orçado", rows |-> << sheetRow("DC", 2024, 1, 90) >>] >>],
      [readable |-> TRUE,
       sheets |-> << [name |-> "Plan1",  rows |-> << sheetRow("DL", 2023, 2, 70), sheetRow("ROL", 2024, 2, 500) >>] >>],
      [readable |-> TRUE,
       sheets |-> << [name |-> "ORÇADO 2024", rows |-> << sheetRow("DC", 2024, 1, 90) >>],
                     [name |-> "Real",        rows |-> << sheetRow("DC", 2024, 1, 100) >>] >>] }

UploadSuffixes == { "4fzyo82mv", "x" }

InitUpload ==
    /\ pc = "upload"
    /\ NoUpload
    /\ host = [timezone |-> 0, fallbackDate |-> InvalidDate]
    /\ rawData = <<>>
    /\ processed = <<>>
    /\ NoDeviation
    /\ thresholds = DEFAULT_THRESHOLDS
    /\ NoStatus
    /\ NoView
    /\ NoPareto
    /\ NoMicro
    /\ NoForecast
    /\ NoHeatmap
    /\ NoPeriod

uploadOther == <<pc, rawData, processed, host, groupBy, thresholds, deviations, statusVars, viewVars,
                 pareto, microVars, forecastVars, heatVars, periodVars>>

\* onDrop on the upload screen: handleFile(file) starts a FileReader
handleFile ==
    /\ view = "UPLOAD"
    /\ Len(uploads) < MaxUploads
    /\ \E file \in UploadFiles :
           uploads' = Append(uploads, [file             |-> file,
                                       stage            |-> "reading",
                                       realSheetName    |-> Undefined,
                                       budgetSheetName  |-> Undefined,
                                       combinedData     |-> <<>>])
    /\ isLoading' = TRUE
    /\ UNCHANGED <<timers, view, appYears, data, uploadOther>>

\* reader.onload of a file XLSX.read cannot parse: the catch branch
readerOnloadFails ==
    /\ \E u \in 1..Len(uploads) :
           /\ uploads[u].stage = "reading"
           /\ ~uploads[u].file.readable
           /\ uploads' = [uploads EXCEPT ![u].stage = "failed"]
    /\ isLoading' = FALSE
    /\ UNCHANGED <<timers, view, appYears, data, uploadOther>>

\* reader.onload of a workbook: both sheets are processed and the timer is set
readerOnload ==
    /\ \E u \in 1..Len(uploads) :
           /\ uploads[u].stage = "reading"
           /\ uploads[u].file.readable
           /\ \E suffixes \in [1..suffixCountOf(uploads[u].file) -> UploadSuffixes] :
                  uploads' = [uploads EXCEPT
                                 ![u].stage = "waiting",
                                 ![u].realSheetName = realSheetNameOf(uploads[u].file),
                                 ![u].budgetSheetName = budgetSheetNameOf(uploads[u].file),
                                 ![u].combinedData = combinedDataOf(uploads[u].file, suffixes, host)]
           /\ timers' = Append(timers, u)
    /\ UNCHANGED <<isLoading, view, appYears, data, uploadOther>>

\* the callback of the oldest pending timer: onDataLoaded(combinedData), that is
\* handleDataLoaded of App, then setIsLoading(false)
timerFires ==
    /\ timers # <<>>
    /\ data' = uploads[Head(timers)].combinedData
    /\ appYears' = yearsAfterLoad(appYears, uploads[Head(timers)].combinedData)
    /\ view' = "GENERAL"
    /\ isLoading' = FALSE
    /\ uploads' = [uploads EXCEPT ![Head(timers)].stage = "loaded"]
    /\ timers' = Tail(timers)
    /\ UNCHANGED uploadOther

NextUpload == handleFile \/ readerOnloadFails \/ readerOnload \/ timerFires

SpecUpload == InitUpload /\ [][NextUpload]_vars


\* C21: no two records produced by the calls of processRawData of one session
\* have the same id
C21_IdsUnique ==
    \A u1, u2 \in 1..Len(uploads) :
        \A i \in 1..Len(uploads[u1].combinedData), j \in 1..Len(uploads[u2].combinedData) :
            (u1 # u2 \/ i # j) => uploads[u1].combinedData[i].id # uploads[u2].combinedData[j].id

\* C25: when file A and then another file B were submitted before A's load
\* had completed and every reader and timer callback has run, the dataset of
\* the application is the records of B
C25_LastUploadWins ==
    (/\ Len(uploads) = 2
     /\ uploads[1].file # uploads[2].file
     /\ uploads[1].stage = "loaded"
     /\ uploads[2].stage = "loaded"
     /\ timers = <<>>) =>
        data = uploads[2].combinedData

\* C26: the sheet loaded as REAL and the sheet loaded as ORCADO are different
\* sheets of the workbook
C26_SheetsDiffer ==
    \A u \in 1..Len(uploads) :
        uploads[u].stage \in { "waiting", "loaded" } =>
            uploads[u].budgetSheetName # uploads[u].realSheetName

====
